---------------------------- MODULE Spec2Model ----------------------------
(***************************************************************************)
(* Shared-memory tiles, the warp-level transfer engine between shared      *)
(* tiles and register tiles, and the 80-column WGMMA dispatcher of         *)
(* ThunderKittens, as state machines.                                      *)
(*                                                                         *)
(*   SpecAddr   - st::idx and st_subtile::idx (tile addressing, swizzle)   *)
(*   Spec       - load(register tile, tile); store(tile2, register tile)   *)
(*   SpecAtomic - atomic_add(tile, register tile) by several warps         *)
(*   SpecMma    - wgmma::base<T_D, T_AB, 80, trans_a, trans_b>::rt_st and  *)
(*                st_st, and the asynchronous unit they issue to           *)
(*   SpecVec    - sv<T, length>: operator[], operator=                     *)
(*   SpecBuild  - one instantiation of a tile, subtile, vector or transfer, *)
(*                from its static_asserts to its first run                 *)
(*   SpecPrint  - print(sv) and print(tile) called by the threads of a warp *)
(*   SpecView   - idx over a whole tile or subtile; st_subtile::operator=   *)
(***************************************************************************)
EXTENDS Integers, Sequences, FiniteSets, TLC

VARIABLES
    \* ---- tile descriptor (template parameters and the data pointer) ----
    T_size,        \* sizeof(dtype): 1, 2 or 4 (8 for a tile of doubles)
    rows,          \* st::rows  (= underlying_rows of any view of the tile)
    cols,          \* st::cols  (= underlying_cols)
    ptr,           \* shared-state-space address of data[0]
    \* ---- the view the last address computation went through ----
    view,          \* "none", "st" or "st_subtile"
    sub_rows,      \* st_subtile::rows
    sub_cols,      \* st_subtile::cols
    row_offset,    \* st_subtile::row_offset
    col_offset,    \* st_subtile::col_offset
    quantum,       \* <<bi, bj>>: base tile of the view the addresses were computed for
    image,         \* [<<r, c>> -> address]: what idx returned on that base tile
    \* ---- transfer engine: one warp, a register tile and shared memory ----
    U_type,        \* ST::dtype, the element type of the shared tile
    T_type,        \* unpacked element type of the register tile (RT::dtype is its packed type)
    layout,        \* RT::layout: "row" or "col"
    KITTENS_HOPPER,\* whether the build defines KITTENS_HOPPER
    dst_ptr,       \* address of data[0] of the tile that store writes
    smem,          \* shared memory: [element address -> value]
    reg,           \* the register tile: [<<lane, i, j, k, e>> -> value] for tiles[i][j].data[k], component e
    pc,            \* "init", "loaded", "stored"
    \* ---- the build of the instantiation ----
    build,         \* "none", "ok", or "rejected" (a static_assert failed)
    \* ---- atomic_add by several warps, seen at one tile coordinate ----
    target,        \* <<r, c>>: the tile coordinate observed
    initial,       \* the value of the destination tile at target before any add
    cell,          \* the value of the destination tile at target
    pending,       \* [warp -> registers whose atomic add to target's address is still to come]
    applied,       \* [warp -> number of atomic adds the warp has made to target's address]
    \* ---- the WGMMA dispatcher: template and call parameters ----
    mma_fn,        \* "rt_st" or "st_st"
    T_D,           \* accumulator type
    T_AB,          \* operand type
    trans_a,       \* template parameter trans_a
    trans_b,       \* template parameter trans_b
    scale_b,       \* template parameter scale_b
    scale_d,       \* runtime argument scale_d
    thread,        \* the thread of the warpgroup (0..127) whose registers are observed
    dst,           \* [<<j, k, e>> -> value]: dst.tiles[0][j].data[k], component e, of thread
    wg,            \* the asynchronous unit: predicate register and operation in flight
    trace,         \* the phases the operation went through, and the step that entered each
    \* ---- a shared vector sv<T, length> at ptr ----
    sv_length,     \* sv::length
    sv_plan,       \* <<stride, start>>: the caller writes index (start + stride * n) % length n-th
    sv_data,       \* sv::data: [element address -> value], num_alloc_elements elements
    sv_count,      \* [element address -> number of writes operator= made to it]
    sv_last,       \* [index -> the value last written at the index], a history of the writes
    sv_out,        \* <<i, v>>: the last read, v = vec[i]; << >> before any read
    sv_step,       \* number of writes made through operator[]
    \* ---- the build of one instantiation, and its run ----
    kind,          \* what is instantiated: "st", "st_subtile", "sv", "load", "store", "atomic_add"
    frag_height,   \* RT::height of the register tile handed to load, store or atomic_add
    frag_width,    \* RT::width
    accesses,      \* number of shared-memory accesses the program has made
    \* ---- one call of print by every thread of a warp ----
    print_of,      \* what is printed: "sv" or "st"
    print_order,   \* the order in which the threads of the warp reach the call
    print_pc,      \* [thread -> "ready", the number of the printf it is at, or "done"]
    out            \* the output so far: <<thread, text>> per printf

descVars == <<T_size, rows, cols, ptr>>
viewVars == <<view, sub_rows, sub_cols, row_offset, col_offset, quantum, image>>
xferVars == <<U_type, T_type, layout, KITTENS_HOPPER, dst_ptr, smem, reg, pc>>
atomVars == <<target, initial, cell, pending, applied>>
mmaVars == <<mma_fn, T_D, T_AB, trans_a, trans_b, scale_b, scale_d, thread, dst, wg, trace>>
svVars == <<sv_length, sv_plan, sv_data, sv_count, sv_last, sv_out, sv_step>>
buildVars == <<kind, frag_height, frag_width, accesses>>
printVars == <<print_of, print_order, print_pc, out>>
vars == <<descVars, viewVars, xferVars, build, atomVars, mmaVars, svVars, buildVars, printVars>>

\* the transfer engine is not in use
XferIdle ==
    /\ U_type = "none" /\ T_type = "none" /\ layout = "row"
    /\ KITTENS_HOPPER = FALSE /\ dst_ptr = 0
    /\ smem = << >> /\ reg = << >> /\ pc = "init"

\* no atomic_add is in progress
AtomIdle ==
    /\ target = <<0, 0>> /\ initial = 0 /\ cell = 0
    /\ pending = << >> /\ applied = << >>

\* no shared vector is in use
SvIdle ==
    /\ sv_length = 0 /\ sv_plan = <<1, 0>>
    /\ sv_data = << >> /\ sv_count = << >> /\ sv_last = << >>
    /\ sv_out = << >> /\ sv_step = 0

\* no instantiation is followed from its build to its run
BuildIdle ==
    /\ kind = "none" /\ frag_height = 0 /\ frag_width = 0 /\ accesses = 0

\* nothing is being printed
PrintIdle ==
    /\ print_of = "none" /\ print_order = << >> /\ print_pc = << >> /\ out = << >>

\* the dispatcher is not in use
MmaIdle ==
    /\ mma_fn = "none" /\ T_D = "none" /\ T_AB = "none"
    /\ trans_a = 0 /\ trans_b = 0 /\ scale_b = 1 /\ scale_d = 1
    /\ thread = 0 /\ dst = << >> /\ wg = << >> /\ trace = << >>

-----------------------------------------------------------------------------
(* Bounds of the model *)

\* tiles are 1..MaxHeight base tiles high
MaxHeight == 2
\* tiles are 1..MaxWidth base tiles wide
MaxWidth == 4
\* tiles are at most MaxBaseTiles base tiles large
MaxBaseTiles == 4
\* the tile's data pointer is one of the first MaxBaseSlots+1 128-byte slots
MaxBaseSlots == 1

-----------------------------------------------------------------------------
(* Program constants *)

WARP_THREADS == 32
KITTENS_DEFAULT_ALIGN == 128

\* kittens::TILE_ROW_DIM<T>
TILE_ROW_DIM(sz) == 16
\* kittens::TILE_COL_DIM<T>: a base tile is 16 columns wide, 32 for 1-byte types
TILE_COL_DIM(sz) == IF sz = 1 THEN 32 ELSE 16

ElemSizes == {1, 2, 4}

-----------------------------------------------------------------------------
(* Integer bit operations, as C computes them on non-negative operands *)

RECURSIVE BitXor(_, _)
BitXor(a, b) ==
    IF b = 0 THEN a
    ELSE IF a = 0 THEN b
    ELSE 2 * BitXor(a \div 2, b \div 2) + (((a % 2) + (b % 2)) % 2)

RECURSIVE BitOr(_, _)
BitOr(a, b) ==
    IF b = 0 THEN a
    ELSE IF a = 0 THEN b
    ELSE 2 * BitOr(a \div 2, b \div 2) + (IF (a % 2) + (b % 2) > 0 THEN 1 ELSE 0)

ShiftRight(a, n) == a \div (2 ^ n)
ShiftLeft(a, n) == a * (2 ^ n)

-----------------------------------------------------------------------------
(* st<T, rows, cols>: derived parameters *)

\* a swizzle_bytes that applies the 16-bit rule to every element size
swizzle_bytes_uniform(sz, underlying_width) ==
    IF underlying_width % 4 = 0 THEN 128
    ELSE IF underlying_width % 2 = 0 THEN 64 ELSE 32

\* st::swizzle_bytes, from sizeof(dtype) and underlying_width
swizzle_bytes(sz, underlying_width) ==
    IF sz = 1 THEN
        (IF underlying_width % 4 = 0 THEN 128
         ELSE IF underlying_width % 2 = 0 THEN 64 ELSE 32)
    ELSE IF sz = 2 THEN
        (IF underlying_width % 4 = 0 THEN 128
         ELSE IF underlying_width % 2 = 0 THEN 64 ELSE 32)
    ELSE IF sz = 4 THEN
        (IF underlying_width % 2 = 0 THEN 128 ELSE 64)
    ELSE -1

\* st::underlying_width = _cols / TILE_COL_DIM<T>
underlying_width(sz, ucols) == ucols \div TILE_COL_DIM(sz)

\* the swizzle_bytes of a tile (or of any subtile of it) with ucols columns
SwizzleOf(sz, ucols) == swizzle_bytes(sz, underlying_width(sz, ucols))

\* a mis-typed swizzle: the row bits are OR-ed into the address
st_idx_or(sz, urows, ucols, p, r, c) ==
    LET sb == SwizzleOf(sz, ucols)
        swizzle_repeat == sb * 8
        subtile_cols == sb \div sz
        outer_idx == c \div subtile_cols
        addr == p + sz * (outer_idx * urows * subtile_cols + r * subtile_cols
                          + (c % subtile_cols))
        swizzle == ShiftLeft(ShiftRight(addr % swizzle_repeat, 7), 4)
    IN  BitOr(addr, swizzle)

\* an unswizzled address that leaves the column within the subtile unreduced
st_idx_no_mod(sz, urows, ucols, p, r, c) ==
    LET sb == SwizzleOf(sz, ucols)
        swizzle_repeat == sb * 8
        subtile_cols == sb \div sz
        outer_idx == c \div subtile_cols
        addr == p + sz * (outer_idx * urows * subtile_cols + r * subtile_cols + c)
        swizzle == ShiftLeft(ShiftRight(addr % swizzle_repeat, 7), 4)
    IN  BitXor(addr, swizzle)

\* st::idx(uint32_t ptr, int2 coord) of st<T, urows, ucols>
st_idx(sz, urows, ucols, p, r, c) ==
    LET sb == SwizzleOf(sz, ucols)
        swizzle_repeat == sb * 8
        subtile_cols == sb \div sz
        outer_idx == c \div subtile_cols
        addr == p + sz * (outer_idx * urows * subtile_cols + r * subtile_cols
                          + (c % subtile_cols))
        swizzle == ShiftLeft(ShiftRight(addr % swizzle_repeat, 7), 4)
    IN  BitXor(addr, swizzle)

\* st::idx(uint32_t ptr, int2 coord) when sizeof(dtype) is none of 1, 2, 4:
\* swizzle_bytes is -1, so swizzle_repeat is -8 and subtile_cols, the size_t
\* quotient (2^64 - 1) / sizeof(T) converted to int, is -1; then outer_idx is
\* -c, c % subtile_cols is 0 and addr is ptr + sizeof(T) * (c * rows - r) in
\* 32 bits. A 32-bit address u >= 2^31 is written as u - 2^32 here;
\* addr % swizzle_repeat is taken in unsigned int (modulus 2^32 - 8) and the
\* shifts are logical
st_idx_no_period(sz, urows, p, r, c) ==
    LET addr == p + sz * (c * urows - r)
        swizzle == IF addr >= 0 THEN ShiftLeft(ShiftRight(addr, 7), 4)
                   ELSE IF addr >= 0 - 8 THEN ShiftLeft(ShiftRight(addr + 8, 7), 4)
                   ELSE ShiftLeft(2 ^ 25 + ShiftRight(addr, 7), 4)
    IN  BitXor(addr, swizzle)

\* a subtile that does its address math with its own rows
st_subtile_idx_own_rows(sz, urows, ucols, srows, roff, coff, p, lr, lc) ==
    LET r == lr + roff
        c == lc + coff
        sb == SwizzleOf(sz, ucols)
        swizzle_repeat == sb * 8
        subtile_cols == sb \div sz
        outer_idx == c \div subtile_cols
        addr == p + sz * (outer_idx * srows * subtile_cols + r * subtile_cols
                          + (c % subtile_cols))
        swizzle == ShiftLeft(ShiftRight(addr % swizzle_repeat, 7), 4)
    IN  BitXor(addr, swizzle)

\* a subtile that derives the swizzle period from its own width
st_subtile_idx_own_swizzle(sz, urows, ucols, srows, roff, coff, p, lr, lc) ==
    LET r == lr + roff
        c == lc + coff
        sb == SwizzleOf(sz, sub_cols)
        swizzle_repeat == sb * 8
        subtile_cols == sb \div sz
        outer_idx == c \div subtile_cols
        addr == p + sz * (outer_idx * urows * subtile_cols + r * subtile_cols
                          + (c % subtile_cols))
        swizzle == ShiftLeft(ShiftRight(addr % swizzle_repeat, 7), 4)
    IN  BitXor(addr, swizzle)

\* a subtile that leaves col_offset out of its address math
st_subtile_idx_no_col_offset(sz, urows, ucols, srows, roff, coff, p, lr, lc) ==
    LET r == lr + roff
        c == lc
        sb == SwizzleOf(sz, ucols)
        swizzle_repeat == sb * 8
        subtile_cols == sb \div sz
        outer_idx == c \div subtile_cols
        addr == p + sz * (outer_idx * urows * subtile_cols + r * subtile_cols
                          + (c % subtile_cols))
        swizzle == ShiftLeft(ShiftRight(addr % swizzle_repeat, 7), 4)
    IN  BitXor(addr, swizzle)

\* st_subtile::idx(uint32_t ptr, int2 coord): srows is the subtile's own rows,
\* urows/ucols the parent's; the parent's are the ones used
st_subtile_idx(sz, urows, ucols, srows, roff, coff, p, lr, lc) ==
    LET r == lr + roff
        c == lc + coff
        sb == SwizzleOf(sz, ucols)
        swizzle_repeat == sb * 8
        subtile_cols == sb \div sz
        outer_idx == c \div subtile_cols
        addr == p + sz * (outer_idx * urows * subtile_cols + r * subtile_cols
                          + (c % subtile_cols))
        swizzle == ShiftLeft(ShiftRight(addr % swizzle_repeat, 7), 4)
    IN  BitXor(addr, swizzle)

\* the static_asserts of st and st_subtile on a shape
ValidShape(sz, r, c) ==
    /\ r > 0 /\ c > 0
    /\ r % TILE_ROW_DIM(sz) = 0
    /\ c % TILE_COL_DIM(sz) = 0

-----------------------------------------------------------------------------
(* Address computations on one base tile of a view *)

\* the coordinates of base tile <<bi, bj>>
QuantumDomain(sz, q) ==
    { <<r, c>> : r \in (q[1] * TILE_ROW_DIM(sz)) .. (q[1] * TILE_ROW_DIM(sz) + TILE_ROW_DIM(sz) - 1),
                 c \in (q[2] * TILE_COL_DIM(sz)) .. (q[2] * TILE_COL_DIM(sz) + TILE_COL_DIM(sz) - 1) }

TileShapes(sz) ==
    { <<h * TILE_ROW_DIM(sz), w * TILE_COL_DIM(sz)>> : h \in 1..MaxHeight, w \in 1..MaxWidth }

BasePtrs == { KITTENS_DEFAULT_ALIGN * k : k \in 0..MaxBaseSlots }

InitAddr ==
    /\ T_size \in ElemSizes
    /\ \E s \in TileShapes(T_size) : rows = s[1] /\ cols = s[2]
    /\ ptr \in BasePtrs
    /\ view = "none"
    /\ sub_rows = rows /\ sub_cols = cols
    /\ row_offset = 0 /\ col_offset = 0
    /\ quantum = <<0, 0>>
    /\ image = << >>
    /\ XferIdle /\ AtomIdle /\ MmaIdle /\ SvIdle /\ BuildIdle /\ PrintIdle
    /\ build = "ok"

\* tile[{r, c}] for every coordinate of one base tile of the root tile
StIdx ==
    /\ view = "none"
    /\ \E bi \in 0 .. (rows \div TILE_ROW_DIM(T_size)) - 1,
          bj \in 0 .. (cols \div TILE_COL_DIM(T_size)) - 1 :
        /\ view' = "st"
        /\ quantum' = <<bi, bj>>
        /\ image' = [rc \in QuantumDomain(T_size, <<bi, bj>>) |->
                        st_idx(T_size, rows, cols, ptr, rc[1], rc[2])]
    /\ UNCHANGED <<svVars, buildVars, descVars, xferVars, build, atomVars, mmaVars, sub_rows, sub_cols, row_offset, col_offset, printVars>>

\* st_subtile::st_subtile(ST &src, int2 rowcol): a view of shape s at grid
\* position rowcol = {i, j} of the tile
StSubtile ==
    /\ view = "none"
    /\ \E s \in TileShapes(T_size) :
        /\ s[1] <= rows /\ s[2] <= cols
        /\ ValidShape(T_size, s[1], s[2])
        /\ \E i \in 0 .. (rows \div s[1]) - 1, j \in 0 .. (cols \div s[2]) - 1 :
            /\ sub_rows' = s[1] /\ sub_cols' = s[2]
            /\ row_offset' = i * s[1]
            /\ col_offset' = j * s[2]
    /\ view' = "st_subtile"
    /\ UNCHANGED <<svVars, buildVars, descVars, xferVars, build, atomVars, mmaVars, quantum, image, printVars>>

\* sub[{r, c}] for every coordinate of one base tile of the subtile
StSubtileIdx ==
    /\ view = "st_subtile"
    /\ image = << >>
    /\ \E bi \in 0 .. (sub_rows \div TILE_ROW_DIM(T_size)) - 1,
          bj \in 0 .. (sub_cols \div TILE_COL_DIM(T_size)) - 1 :
        /\ quantum' = <<bi, bj>>
        /\ image' = [rc \in QuantumDomain(T_size, <<bi, bj>>) |->
                        st_subtile_idx(T_size, rows, cols, sub_rows,
                                       row_offset, col_offset, ptr, rc[1], rc[2])]
    /\ UNCHANGED <<svVars, buildVars, descVars, xferVars, build, atomVars, mmaVars, view, sub_rows, sub_cols, row_offset, col_offset, printVars>>

NextAddr == StIdx \/ StSubtile \/ StSubtileIdx

SpecAddr == InitAddr /\ [][NextAddr]_vars

-----------------------------------------------------------------------------
(* Properties of tile addressing *)

ImageSet == { image[rc] : rc \in DOMAIN image }

\* idx maps distinct coordinates of the base tile to distinct addresses
ImageInjective == Cardinality(ImageSet) = Cardinality(DOMAIN image)

\* the addresses are exactly the element slots of one contiguous address range
\* (Cardinality(DOMAIN image) distinct element-aligned addresses, all within
\* Cardinality(DOMAIN image) element slots of the lowest one)
ImageContiguous ==
    LET S == ImageSet
        n == Cardinality(DOMAIN image)
    IN  /\ Cardinality(S) = n
        /\ \E lo \in S :
            \A a \in S :
                /\ lo <= a
                /\ a < lo + T_size * n
                /\ (a - lo) % T_size = 0

\* bytes of one row of a base tile
QuantumRowBytes(sz) == TILE_COL_DIM(sz) * sz

\* C2 as stated: on the coordinates of one base tile, st::idx is a bijection
\* onto a contiguous address range of equal size, for every element size and
\* tile width.
C2_QuantumImageContiguous ==
    view = "st" => (ImageInjective /\ ImageContiguous)

\* C2 (amended): on the coordinates of one base tile, st::idx is injective (a
\* bijection onto an address set of equal size); that set is one contiguous
\* range exactly when the swizzle period equals the byte width of a base
\* tile's row (the tile is an odd number of base tiles wide).
C2_QuantumImageBijective ==
    view = "st" =>
        /\ ImageInjective
        /\ ImageContiguous <=> (SwizzleOf(T_size, cols) = QuantumRowBytes(T_size))

\* C2 witnesses: addresses of a base tile were computed, for a tile whose
\* swizzle period is one base-tile row, not at the tile's first base tile
C2_Witness ==
    /\ view = "st"
    /\ quantum = <<1, 2>>
    /\ ptr > 0
    /\ SwizzleOf(T_size, cols) = QuantumRowBytes(T_size)
    /\ Cardinality(ImageSet) = TILE_ROW_DIM(T_size) * TILE_COL_DIM(T_size)

\* C3: the address a subtile computes for local (r, c) is the address its
\* parent tile computes for (r + row_offset, c + col_offset).
C3_SubtileEquivalence ==
    (view = "st_subtile" /\ image # << >>) =>
        \A rc \in DOMAIN image :
            image[rc] = st_idx(T_size, rows, cols, ptr,
                               rc[1] + row_offset, rc[2] + col_offset)

\* C3 witness: a subtile smaller than its parent in both dimensions, with
\* non-zero offsets, placed beyond the parent's first swizzle column block
C3_Witness ==
    /\ view = "st_subtile" /\ image # << >>
    /\ sub_rows < rows /\ sub_cols < cols
    /\ row_offset > 0
    /\ col_offset * T_size >= SwizzleOf(T_size, cols)

\* the swizzle period the computed addresses show: the swizzle exchanges bytes
\* within a 128-byte line only, and rows four apart lie four periods apart
ObservedPeriod ==
    LET r0 == quantum[1] * TILE_ROW_DIM(T_size)
        c0 == quantum[2] * TILE_COL_DIM(T_size)
    IN  32 * ((image[<<r0 + 4, c0>>] \div 128) - (image[<<r0, c0>>] \div 128))

\* the period by element byte width and tile width in base tiles
PeriodTable(sz, w) ==
    IF sz \in {1, 2}
    THEN (IF w % 4 = 0 THEN 128 ELSE IF w % 2 = 0 THEN 64 ELSE 32)
    ELSE (IF w % 2 = 0 THEN 128 ELSE 64)

\* C13: a root tile's swizzle period is a function of the element byte width
\* and the tile's width in base tiles alone: for 1- and 2-byte elements 128
\* if width % 4 = 0, else 64 if width % 2 = 0, else 32; for 4-byte elements
\* 128 if width % 2 = 0, else 64; and the addresses idx returns are laid out
\* with that period, whatever the tile's height and base address.
C13_SwizzlePeriod ==
    LET w == cols \div TILE_COL_DIM(T_size)
    IN  /\ SwizzleOf(T_size, cols) = PeriodTable(T_size, w)
        /\ (view = "st" /\ image # << >>) => ObservedPeriod = PeriodTable(T_size, w)

\* C13 witness: addresses were computed on a 4-byte tile three base tiles
\* wide, away from its first base tile and from address 0
C13_Witness ==
    /\ view = "st" /\ image # << >>
    /\ T_size = 4 /\ cols = 3 * TILE_COL_DIM(T_size) /\ rows = 2 * TILE_ROW_DIM(T_size)
    /\ quantum = <<1, 2>> /\ ptr > 0
    /\ ObservedPeriod = 64

\* C19: a subtile's swizzle period is its parent's, never one derived from the
\* subtile's own width: the addresses a subtile computes are laid out with
\* the period of the parent's width.
C19_SubtilePeriod ==
    (view = "st_subtile" /\ image # << >>) =>
        ObservedPeriod = SwizzleOf(T_size, cols)

\* C19 witness: a 16-column subtile of a 64-column 2-byte tile computed
\* addresses with period 128, not the 32 of its own width
C19_Witness ==
    /\ view = "st_subtile" /\ image # << >>
    /\ T_size = 2 /\ cols = 64 /\ sub_cols = 16
    /\ col_offset > 0
    /\ ObservedPeriod = 128
    /\ SwizzleOf(T_size, sub_cols) = 32

-----------------------------------------------------------------------------
(* Element types, packing and conversion (base_types) *)

ElemTypes == {"fp8e4m3", "bf16", "half", "float"}

\* sizeof(T)
SizeOf(t) ==
    IF t = "fp8e4m3" THEN 1 ELSE IF t = "float" THEN 4 ELSE IF t = "double" THEN 8 ELSE 2

\* base_types::packing<T>::num() of an element type: the types here are scalars
packing_num(t) == 1

\* significant bits of the type (implicit bit included)
SigBits(t) ==
    IF t = "fp8e4m3" THEN 4 ELSE IF t = "bf16" THEN 8 ELSE IF t = "half" THEN 11 ELSE 24

\* base_types::packing<T>::num() of the packed type: float2, bf16_2, half_2, fp8e4m3_4
PackNum(t) == IF SizeOf(t) = 1 THEN 4 ELSE 2

\* v >= 0 rounded to p significant bits, ties to even
RoundSig(v, p) ==
    IF v < 2 ^ p THEN v
    ELSE LET q == 2 ^ (CHOOSE e \in 1 .. 32 : v < 2 ^ (p + e) /\ v >= 2 ^ (p + e - 1))
             down == (v \div q) * q
             rem == v - down
         IN  IF 2 * rem > q \/ (2 * rem = q /\ (v \div q) % 2 = 1)
             THEN down + q ELSE down

\* base_types::convertor<To, From>::convert on one element
convert(to, from, v) == IF to = from THEN v ELSE RoundSig(v, SigBits(to))

-----------------------------------------------------------------------------
(* Shared-memory move primitives of one warp (util: move<>, PTX ldmatrix,  *)
(* stmatrix, ld.shared, st.shared).  Addr(l) is the address lane l passes. *)

LaneIds == 0 .. WARP_THREADS - 1

\* ldmatrix.x4: component e (of esz bytes) of the register lane l receives
\* from 8x8 b16 matrix m; rows of matrix m are addressed by lanes 8m..8m+7
ldsm4(mem, Addr(_), l, m, e, esz) ==
    mem[Addr(8 * m + (l \div 4)) + 4 * (l % 4) + e * esz]

\* ldmatrix.x4.trans: the b16 matrices are transposed on the way
ldsm4t(mem, Addr(_), l, m, e, esz) ==
    mem[Addr(8 * m + 2 * (l % 4) + ((e * esz) \div 2)) + 2 * (l \div 4) + ((e * esz) % 2)]

\* stmatrix.x4: where component e of lane l's register for matrix m is written
stsm4(Addr(_), l, m, e, esz) ==
    Addr(8 * m + (l \div 4)) + 4 * (l % 4) + e * esz

\* stmatrix.x4.trans
stsm4t(Addr(_), l, m, e, esz) ==
    Addr(8 * m + 2 * (l % 4) + ((e * esz) \div 2)) + 2 * (l \div 4) + ((e * esz) % 2)

-----------------------------------------------------------------------------
(* Transfer engine: load, store (shared_to_register) *)

\* rt_base::tile_size_row, rt_base::tile_size_col
tile_size_row == TILE_ROW_DIM(T_size)
tile_size_col == TILE_COL_DIM(T_size)

\* RT::height, RT::width (= ST::height, ST::width by the static_asserts)
RT_height == sub_rows \div TILE_ROW_DIM(T_size)
RT_width == sub_cols \div TILE_COL_DIM(T_size)

\* every register of the register tile: <<lane, i, j, k, e>>
FragSlots ==
    LaneIds \X (0 .. RT_height - 1) \X (0 .. RT_width - 1) \X (0 .. 3)
            \X (0 .. PackNum(U_type) - 1)

\* the argument order (tmp[0], tmp[2], tmp[1], tmp[3]) of the transposed forms
TransOrder(k) == IF k = 1 THEN 2 ELSE IF k = 2 THEN 1 ELSE k

\* ST::idx(shared_addr, {r, c}) of the tile type the engine was instantiated with
ST_idx(p, r, c) ==
    IF view = "st_subtile"
    THEN st_subtile_idx(T_size, rows, cols, sub_rows, row_offset, col_offset, p, r, c)
    ELSE st_idx(T_size, rows, cols, p, r, c)

\* ST::rows == ST::underlying_rows && ST::cols == ST::underlying_cols
IsFullTile == sub_rows = rows /\ sub_cols = cols

\* a parity bit that is never set
blit_none(l) == 0

\* the parity bit of the 32-bit row-major path
blit(l) == 4 * ((l % 4) \div 2)

\* a 32-bit row-major path that addresses a subtile as if it were the tile
fl_row_addr_no_offset(p, l, i, j, k, e) ==
    LET row == i * tile_size_row + (l \div 4)
        col == j * tile_size_col + 2 * (l % 4)
        sb == SwizzleOf(T_size, cols)
        swizzle_repeat == sb * 8
        subtile_cols == sb \div T_size
        outer_idx == col \div subtile_cols
        addr_1 == p + T_size * (outer_idx * rows * subtile_cols + (row + 0) * subtile_cols
                                + (col % subtile_cols))
        addr_2 == p + T_size * (outer_idx * rows * subtile_cols + (row + 8) * subtile_cols
                                + (col % subtile_cols))
        addr == IF k \in {0, 2} THEN addr_1 ELSE addr_2
        swizzle == BitXor(blit(l), ShiftLeft(ShiftRight(addr % swizzle_repeat, 7), 4))
        off == (IF k \in {2, 3} THEN 32 ELSE 0) + 4 * e
    IN  BitXor(addr + off, swizzle)

\* a 32-bit row-major path that strides the subtile columns by the view's own rows
fl_row_addr_own_rows(p, l, i, j, k, e) ==
    LET row == i * tile_size_row + (l \div 4) + (IF IsFullTile THEN 0 ELSE row_offset)
        col == j * tile_size_col + 2 * (l % 4) + (IF IsFullTile THEN 0 ELSE col_offset)
        sb == SwizzleOf(T_size, cols)
        swizzle_repeat == sb * 8
        subtile_cols == sb \div T_size
        outer_idx == col \div subtile_cols
        addr_1 == p + T_size * (outer_idx * sub_rows * subtile_cols + (row + 0) * subtile_cols
                                + (col % subtile_cols))
        addr_2 == p + T_size * (outer_idx * sub_rows * subtile_cols + (row + 8) * subtile_cols
                                + (col % subtile_cols))
        addr == IF k \in {0, 2} THEN addr_1 ELSE addr_2
        swizzle == BitXor(blit(l), ShiftLeft(ShiftRight(addr % swizzle_repeat, 7), 4))
        off == (IF k \in {2, 3} THEN 32 ELSE 0) + 4 * e
    IN  BitXor(addr + off, swizzle)

\* 32-bit row-major path: the address of the word read into / written from
\* tmp[k], component e, by lane l for base tile (i, j)
fl_row_addr(p, l, i, j, k, e) ==
    LET row == i * tile_size_row + (l \div 4) + (IF IsFullTile THEN 0 ELSE row_offset)
        col == j * tile_size_col + 2 * (l % 4) + (IF IsFullTile THEN 0 ELSE col_offset)
        sb == SwizzleOf(T_size, cols)
        swizzle_repeat == sb * 8
        subtile_cols == sb \div T_size
        outer_idx == col \div subtile_cols
        addr_1 == p + T_size * (outer_idx * rows * subtile_cols + (row + 0) * subtile_cols
                                + (col % subtile_cols))
        addr_2 == p + T_size * (outer_idx * rows * subtile_cols + (row + 8) * subtile_cols
                                + (col % subtile_cols))
        addr == IF k \in {0, 2} THEN addr_1 ELSE addr_2
        swizzle == BitXor(blit(l), ShiftLeft(ShiftRight(addr % swizzle_repeat, 7), 4))
        off == (IF k \in {2, 3} THEN 32 ELSE 0) + 4 * e
    IN  BitXor(addr + off, swizzle)

\* column-major path: the address of tmp[k], component e
col_addr(p, l, i, j, k, e) ==
    LET row == i * tile_size_row + 2 * (l % 4)
        col == j * tile_size_col + (l \div 4)
    IN  ST_idx(p, row + (IF k \in {2, 3} THEN 8 ELSE 0) + e,
                  col + (IF k \in {1, 3} THEN 8 ELSE 0))

\* row addresses taken from the unswizzled layout
ldsm_lane_addr_unswizzled(p, i, j, l) ==
    LET r == i * tile_size_row + (l % 16) + (IF view = "st_subtile" THEN row_offset ELSE 0)
        c == j * tile_size_col + (l \div 16) * (IF T_size = 1 THEN 16 ELSE 8)
                + (IF view = "st_subtile" THEN col_offset ELSE 0)
        subtile_cols == SwizzleOf(T_size, cols) \div T_size
    IN  p + T_size * ((c \div subtile_cols) * rows * subtile_cols + r * subtile_cols
                      + (c % subtile_cols))

\* the row address lane l passes to the grouped matrix load / store
ldsm_lane_addr(p, i, j, l) ==
    ST_idx(p, i * tile_size_row + (l % 16),
              j * tile_size_col + (l \div 16) * (IF T_size = 1 THEN 16 ELSE 8))

\* whether load has a branch for the instantiation
load_has_branch ==
    \/ T_size = 2
    \/ (layout = "row" /\ T_size = 1)
    \/ (layout = "row" /\ T_size = 4)
    \/ T_size # 1

\* load: the register tile after load(dst, src), src at address p in mem
load(mem, p, old) ==
    IF ~load_has_branch THEN old
    ELSE
    LET tmp(l, i, j, k, e) ==
            IF T_size = 2 THEN
                IF layout = "row"
                THEN ldsm4(mem, LAMBDA x : ldsm_lane_addr(p, i, j, x), l, k, e, T_size)
                ELSE ldsm4t(mem, LAMBDA x : ldsm_lane_addr(p, i, j, x), l, TransOrder(k), e, T_size)
            ELSE IF layout = "row" /\ T_size = 1 THEN
                ldsm4(mem, LAMBDA x : ldsm_lane_addr(p, i, j, x), l, k, e, T_size)
            ELSE IF layout = "row" /\ T_size = 4 THEN
                \* tmp is converted, then x and y are exchanged when blit is set
                mem[fl_row_addr(p, l, i, j, k, IF blit(l) # 0 THEN 1 - e ELSE e)]
            ELSE
                mem[col_addr(p, l, i, j, k, e)]
    IN  [s \in FragSlots |->
            convert(T_type, U_type, tmp(s[1], s[2], s[3], s[4], s[5]))]

\* a store that sends the four registers of a lane to the place of the first
store_addr_first_slot(p, l, i, j, k, e) == col_addr(p, l, i, j, 0, e)

\* store: the address that store(dst, src) writes register <<l, i, j, k, e>> to
store_addr(p, l, i, j, k, e) ==
    IF T_size = 2 THEN
        IF KITTENS_HOPPER THEN
            IF layout = "row"
            THEN stsm4(LAMBDA x : ldsm_lane_addr(p, i, j, x), l, k, e, T_size)
            ELSE stsm4t(LAMBDA x : ldsm_lane_addr(p, i, j, x), l, TransOrder(k), e, T_size)
        ELSE
            IF layout = "row"
            THEN LET row == i * tile_size_row + (l \div 4)
                     col == j * tile_size_col + 2 * (l % 4)
                 IN  ST_idx(p, row + (IF k \in {1, 3} THEN 8 ELSE 0),
                               col + (IF k \in {2, 3} THEN 8 ELSE 0)) + e * T_size
            ELSE col_addr(p, l, i, j, k, e)
    ELSE IF T_size = 1 THEN
        IF layout = "row"
        THEN stsm4(LAMBDA x : ldsm_lane_addr(p, i, j, x), l, k, e, T_size)
        ELSE stsm4t(LAMBDA x : ldsm_lane_addr(p, i, j, x), l, TransOrder(k), e, T_size)
    ELSE IF layout = "row" /\ T_size = 4 THEN
        fl_row_addr(p, l, i, j, k, e)
    ELSE
        col_addr(p, l, i, j, k, e)

\* a store that does not exchange x and y
store_value_noswap(frag, l, i, j, k, e) ==
    convert(U_type, T_type, frag[<<l, i, j, k, e>>])

\* store: the value written for register <<l, i, j, k, e>>: in the 32-bit
\* row-major path x and y are exchanged first when blit is set
store_value(frag, l, i, j, k, e) ==
    convert(U_type, T_type,
            IF layout = "row" /\ T_size = 4 /\ blit(l) # 0
            THEN frag[<<l, i, j, k, 1 - e>>]
            ELSE frag[<<l, i, j, k, e>>])

\* the registers of one lane, numbered 0 .. SlotsPerLane - 1
SlotsPerLane == RT_height * RT_width * 4 * PackNum(U_type)
LaneSlot(l, n) ==
    LET pk == PackNum(U_type)
    IN  <<l, n \div (RT_width * 4 * pk), (n \div (4 * pk)) % RT_width, (n \div pk) % 4, n % pk>>

\* store: the address every register of the register tile is written to
store_addrs(p) ==
    [s \in FragSlots |-> store_addr(p, s[1], s[2], s[3], s[4], s[5])]

\* one write of the store: register number n % SlotsPerLane of the
\* (n \div SlotsPerLane)-th lane of order
store_write(mem, tgt, frag, order, n) ==
    LET s == LaneSlot(order[(n \div SlotsPerLane) + 1], n % SlotsPerLane)
        a == tgt[s]
        v == store_value(frag, s[1], s[2], s[3], s[4], s[5])
    IN  IF a \in DOMAIN mem THEN [mem EXCEPT ![a] = v] ELSE mem

\* the writes numbered lo .. hi-1 applied to mem, in that order
RECURSIVE warp_writes(_, _, _, _, _, _)
warp_writes(mem, tgt, frag, order, lo, hi) ==
    IF hi - lo = 1 THEN store_write(mem, tgt, frag, order, lo)
    ELSE LET mid == (lo + hi) \div 2
             first == warp_writes(mem, tgt, frag, order, lo, mid)
         IN  IF DOMAIN first = {} THEN first
             ELSE warp_writes(first, tgt, frag, order, mid, hi)

\* the orders in which the memory system may commit the lanes' writes
LaneOrders ==
    { [n \in 1 .. WARP_THREADS |-> n - 1], [n \in 1 .. WARP_THREADS |-> WARP_THREADS - n] }

\* store: shared memory after store(dst, src), the registers going to tgt
store(mem, tgt, frag, order) ==
    warp_writes(mem, tgt, frag, order, 0, WARP_THREADS * SlotsPerLane)

-----------------------------------------------------------------------------
(* The transfer engine as a state machine: a tile X at ptr, a second tile   *)
(* at dst_ptr, one warp: load(fragment, tile); store(tile2, fragment)       *)

\* (tile element type, register tile element type)
TypePairs ==
    { <<"fp8e4m3", "fp8e4m3">>, <<"bf16", "bf16">>, <<"float", "float">>,
      <<"bf16", "float">>, <<"float", "bf16">> }

\* the tile shapes transferred: at most MaxBaseTiles base tiles
XferShapes(sz) ==
    { s \in TileShapes(sz) :
        (s[1] \div TILE_ROW_DIM(sz)) * (s[2] \div TILE_COL_DIM(sz)) <= MaxBaseTiles }

\* subtiles transferred are at most MaxSubTiles base tiles large
MaxSubTiles == 1

\* the views of a tile of r rows and c columns that are transferred: the tile
\* itself, and its subtiles <<"st_subtile", rows, cols, row_offset, col_offset>>
XferViews(sz, r, c) ==
    { <<"st", r, c, 0, 0>> } \cup
    UNION { { <<"st_subtile", t[1], t[2], i * t[1], j * t[2]>> :
                i \in 0 .. (r \div t[1]) - 1, j \in 0 .. (c \div t[2]) - 1 } :
            t \in { x \in TileShapes(sz) :
                      /\ x[1] <= r /\ x[2] <= c /\ x # <<r, c>>
                      /\ (x[1] \div TILE_ROW_DIM(sz)) * (x[2] \div TILE_COL_DIM(sz))
                            <= MaxSubTiles } }

\* bytes of the tile
TileBytes == rows * cols * T_size

\* the element addresses of a tile at p
TileAddrs(p) == { p + T_size * n : n \in 0 .. rows * cols - 1 }

\* a tile content: element n holds a value representable in the tile's type
Pattern(seed, n) == (n + 3 * (n \div 16) + 5 * (n \div 256) + seed) % (2 ^ SigBits(U_type))

\* values the registers may hold before anything was loaded
RegFills == {0, 1}

Init ==
    /\ \E tp \in TypePairs : U_type = tp[1] /\ T_type = tp[2]
    /\ T_size = SizeOf(U_type)
    /\ layout \in {"row", "col"}
    /\ KITTENS_HOPPER \in (IF T_size = 1 THEN {TRUE} ELSE BOOLEAN)
    /\ \E s \in XferShapes(T_size) : rows = s[1] /\ cols = s[2]
    /\ ptr \in {0, KITTENS_DEFAULT_ALIGN * MaxBaseSlots}
    /\ dst_ptr = ptr + TileBytes
    /\ \E v \in XferViews(T_size, rows, cols) :
        /\ view = v[1]
        /\ sub_rows = v[2] /\ sub_cols = v[3]
        /\ row_offset = v[4] /\ col_offset = v[5]
    /\ quantum = <<0, 0>>
    /\ image = << >>
    /\ smem = [a \in TileAddrs(ptr) \cup TileAddrs(dst_ptr) |->
                 IF a < dst_ptr
                 THEN Pattern(ptr \div KITTENS_DEFAULT_ALIGN, (a - ptr) \div T_size)
                 ELSE Pattern(7, (a - dst_ptr) \div T_size)]
    /\ \E f \in RegFills : reg = [s \in FragSlots |-> f]
    /\ pc = "init"
    /\ AtomIdle /\ MmaIdle /\ SvIdle /\ BuildIdle /\ PrintIdle
    /\ build = "ok"

\* load(fragment, tile), collectively by the 32 lanes
Load ==
    /\ pc = "init"
    /\ reg' = load(smem, ptr, reg)
    /\ pc' = "loaded"
    /\ UNCHANGED <<svVars, buildVars, descVars, viewVars, build, atomVars, mmaVars, U_type, T_type, layout, KITTENS_HOPPER, dst_ptr, smem, printVars>>

\* store(tile2, fragment), collectively by the 32 lanes
Store ==
    /\ pc = "loaded"
    /\ LET tgt == store_addrs(dst_ptr)
       IN  \E order \in LaneOrders : smem' = store(smem, tgt, reg, order)
    /\ pc' = "stored"
    /\ UNCHANGED <<svVars, buildVars, descVars, viewVars, build, atomVars, mmaVars, U_type, T_type, layout, KITTENS_HOPPER, dst_ptr, reg, printVars>>

Next == Load \/ Store

Spec == Init /\ [][Next]_vars

\* tile2's memory image equals tile's; for a subtile, at the subtile's coordinates
SameImage ==
    IF IsFullTile
    THEN \A o \in 0 .. TileBytes - 1 :
            (ptr + o \in DOMAIN smem) => smem[dst_ptr + o] = smem[ptr + o]
    ELSE \A r \in 0 .. sub_rows - 1, c \in 0 .. sub_cols - 1 :
            smem[ST_idx(dst_ptr, r, c)] = smem[ST_idx(ptr, r, c)]

\* C1: for every element width (1, 2, 4 bytes) and fragment orientation, with
\* the fragment's element type equal to the tile's, load(fragment, tile)
\* followed by store(tile2, fragment) leaves tile2's image identical to tile's.
C1_RoundTrip == (pc = "stored" /\ U_type = T_type) => SameImage

\* the round trip wherever load has a branch for the (width, orientation)
RoundTripWhereLoaded ==
    (pc = "stored" /\ U_type = T_type /\ load_has_branch) => SameImage


-----------------------------------------------------------------------------
(* atomic_add(dst, src) (shared_to_register) *)

\* an atomic_add that rejects 1-byte elements for row-major register tiles only
atomic_add_supported_row == T_size # 1 \/ layout = "col"

\* static_assert(sizeof(typename ST::dtype) != 1, "atomic_add is not supported for this type")
atomic_add_supported == T_size # 1

\* an atomic_add whose 16-bit row-major path adds tmp[1] at col+8 and tmp[2]
\* at row+8
atomic_add_addr_pairs(p, l, i, j, k, e) ==
    IF T_size = 2 THEN
        IF layout = "row"
        THEN LET row == i * tile_size_row + (l \div 4)
                 col == j * tile_size_col + 2 * (l % 4)
             IN  ST_idx(p, row + (IF k \in {2, 3} THEN 8 ELSE 0),
                           col + (IF k \in {1, 3} THEN 8 ELSE 0)) + e * T_size
        ELSE col_addr(p, l, i, j, k, e)
    ELSE IF layout = "row" /\ T_size = 4 THEN
        fl_row_addr(p, l, i, j, k, e)
    ELSE IF T_size # 1 THEN
        col_addr(p, l, i, j, k, e)
    ELSE -1

\* an atomic_add whose 16-bit row-major path adds tmp[1] at row+0
atomic_add_addr_row0(p, l, i, j, k, e) ==
    IF T_size = 2 THEN
        IF layout = "row"
        THEN LET row == i * tile_size_row + (l \div 4)
                 col == j * tile_size_col + 2 * (l % 4)
             IN  ST_idx(p, row, col + (IF k \in {2, 3} THEN 8 ELSE 0)) + e * T_size
        ELSE col_addr(p, l, i, j, k, e)
    ELSE IF layout = "row" /\ T_size = 4 THEN
        fl_row_addr(p, l, i, j, k, e)
    ELSE IF T_size # 1 THEN
        col_addr(p, l, i, j, k, e)
    ELSE -1

\* atomic_add: the address register <<l, i, j, k, e>> is added to; the packed
\* add of the 16-bit row-major path adds component e at the e-th element of
\* the pair
atomic_add_addr(p, l, i, j, k, e) ==
    IF T_size = 2 THEN
        IF layout = "row"
        THEN LET row == i * tile_size_row + (l \div 4)
                 col == j * tile_size_col + 2 * (l % 4)
             IN  ST_idx(p, row + (IF k \in {1, 3} THEN 8 ELSE 0),
                           col + (IF k \in {2, 3} THEN 8 ELSE 0)) + e * T_size
        ELSE col_addr(p, l, i, j, k, e)
    ELSE IF layout = "row" /\ T_size = 4 THEN
        fl_row_addr(p, l, i, j, k, e)
    ELSE IF T_size # 1 THEN
        col_addr(p, l, i, j, k, e)
    ELSE -1

\* atomic_add: the addend for register <<l, i, j, k, e>>; in the 32-bit
\* row-major path x and y are exchanged first when blit is set
atomic_add_value(frag, l, i, j, k, e) ==
    convert(U_type, T_type,
            IF layout = "row" /\ T_size = 4 /\ blit(l) # 0
            THEN frag[<<l, i, j, k, 1 - e>>]
            ELSE frag[<<l, i, j, k, e>>])

\* atomic<U>::adds: one indivisible read-modify-write of an element
atomic_adds(old, v) == RoundSig(old + v, SigBits(U_type))

-----------------------------------------------------------------------------
(* Properties of the lane mapping of load, store and atomic_add             *)

\* the position within a base tile that component e of data[k] of lane l holds
PosRow(l, k, e) ==
    IF layout = "row" THEN (l \div 4) + 8 * (k % 2)
    ELSE 2 * (l % 4) + 8 * (k \div 2) + e
PosCol(l, k, e) ==
    IF layout = "row" THEN 2 * (l % 4) + 8 * (k \div 2) + e
    ELSE (l \div 4) + 8 * (k % 2)

\* the coordinate, in the view, of register s = <<l, i, j, k, e>>
SlotRow(s) == s[2] * TILE_ROW_DIM(T_size) + PosRow(s[1], s[4], s[5])
SlotCol(s) == s[3] * TILE_COL_DIM(T_size) + PosCol(s[1], s[4], s[5])

\* the positions of the 32 lanes' registers cover a 16x16 base tile, each
\* once: 32 * 4 * 2 registers onto 16 * 16 positions
PosBijective ==
    { <<PosRow(l, k, e), PosCol(l, k, e)>> : l \in LaneIds, k \in 0 .. 3, e \in 0 .. 1 }
        = (0 .. 15) \X (0 .. 15)

\* where store puts register s: the address its value is written to (the
\* 32-bit row-major path writes component e through tmp's other half when
\* the lane's parity bit is set)
StoredAt(p, s) ==
    store_addr(p, s[1], s[2], s[3], s[4],
               IF layout = "row" /\ T_size = 4 /\ blit(s[1]) # 0 THEN 1 - s[5] ELSE s[5])

\* C14: for 2- and 4-byte elements and each orientation, load and store use
\* one total, bijective position-to-lane mapping on every 16x16 base tile:
\* each (row, col) is held by exactly one (lane, data[k], component), and
\* the position a register holds depends on (lane, k, component) alone, not
\* on the base address, the swizzle period or the view being a tile or a
\* subtile.
C14_LaneMapping ==
    T_size \in {2, 4} =>
        /\ PosBijective
        /\ \A s \in FragSlots :
            /\ StoredAt(dst_ptr, s) = ST_idx(dst_ptr, SlotRow(s), SlotCol(s))
            /\ pc # "init" =>
                    reg[s] = convert(T_type, U_type, smem[ST_idx(ptr, SlotRow(s), SlotCol(s))])

\* C14 witness: a column-major 4-byte register tile was loaded from and
\* stored to a subtile that lies off the parent's origin, parent not at 0
C14_Witness ==
    /\ pc = "stored" /\ T_size = 4 /\ layout = "col"
    /\ view = "st_subtile" /\ col_offset > 0 /\ row_offset > 0
    /\ ptr > 0
    /\ \E s \in FragSlots : reg[s] > 1

\* C15: load is defined for every element byte width in {1, 2, 4}, fragment
\* orientation and view (tile or subtile): after load every register of the
\* register tile holds the (converted) element of the source that store
\* writes that register back to; no case leaves the registers as they were.
C15_LoadDefined ==
    pc # "init" =>
        \A s \in FragSlots :
            reg[s] = convert(T_type, U_type, smem[StoredAt(ptr, s)])

\* the same wherever load has a branch for the (width, orientation)
LoadDefinedWhereBranch ==
    (pc # "init" /\ load_has_branch) =>
        \A s \in FragSlots :
            reg[s] = convert(T_type, U_type, smem[StoredAt(ptr, s)])

\* C16: in the 32-bit row-major path, after load component x of every
\* register holds the element at the lane's even column and y the element at
\* the next column, whether or not the lane's parity bit blit is set; store
\* writes them back to those columns and atomic_add adds them at those
\* columns, so load followed by store reproduces memory exactly.
C16_ParitySwap ==
    (T_size = 4 /\ layout = "row") =>
        /\ \A s \in FragSlots :
            LET l == s[1]
                row == s[2] * TILE_ROW_DIM(T_size) + (l \div 4) + 8 * (s[4] % 2)
                even == s[3] * TILE_COL_DIM(T_size) + 2 * (l % 4) + 8 * (s[4] \div 2)
                other == <<l, s[2], s[3], s[4], 1 - s[5]>>
            IN  /\ pc # "init" =>
                    /\ reg[s] = convert(T_type, U_type, smem[ST_idx(ptr, row, even + s[5])])
                    /\ blit(l) # 0 =>
                        /\ store_value(reg, l, s[2], s[3], s[4], s[5]) = convert(U_type, T_type, reg[other])
                        /\ atomic_add_value(reg, l, s[2], s[3], s[4], s[5]) = convert(U_type, T_type, reg[other])
                    /\ blit(l) = 0 =>
                        /\ store_value(reg, l, s[2], s[3], s[4], s[5]) = convert(U_type, T_type, reg[s])
                        /\ atomic_add_value(reg, l, s[2], s[3], s[4], s[5]) = convert(U_type, T_type, reg[s])
                /\ StoredAt(dst_ptr, s) = ST_idx(dst_ptr, row, even + s[5])
                /\ atomic_add_addr(dst_ptr, l, s[2], s[3], s[4], s[5])
                        = store_addr(dst_ptr, l, s[2], s[3], s[4], s[5])
        /\ (pc = "stored" /\ U_type = T_type) => SameImage

\* C16 witness: a 32-bit row-major round trip in which a lane with the parity
\* bit set holds two different values in one register
C16_Witness ==
    /\ pc = "stored" /\ T_size = 4 /\ layout = "row" /\ U_type = T_type
    /\ blit(2) # 0
    /\ reg[<<2, 0, 0, 1, 0>>] # reg[<<2, 0, 0, 1, 1>>]
    /\ smem[StoredAt(dst_ptr, <<2, 0, 0, 1, 1>>)] = reg[<<2, 0, 0, 1, 1>>]

\* C17: atomic_add addresses the tile as store does: for 2- and 4-byte
\* elements, both orientations, tiles and subtiles, every register is added
\* at the address store writes it to, with the value store writes; hence the
\* tile store leaves holds, at every address atomic_add adds to, what one
\* atomic add of the register to a zero element leaves there.
C17_AtomicAddressing ==
    T_size \in {2, 4} =>
        \A s \in FragSlots :
            /\ atomic_add_addr(dst_ptr, s[1], s[2], s[3], s[4], s[5])
                    = store_addr(dst_ptr, s[1], s[2], s[3], s[4], s[5])
            /\ pc # "init" =>
                    atomic_add_value(reg, s[1], s[2], s[3], s[4], s[5])
                        = store_value(reg, s[1], s[2], s[3], s[4], s[5])
            /\ pc = "stored" =>
                    smem[atomic_add_addr(dst_ptr, s[1], s[2], s[3], s[4], s[5])]
                        = atomic_adds(0, atomic_add_value(reg, s[1], s[2], s[3], s[4], s[5]))

\* C17 witness: a row-major register tile of floats was stored to a subtile
\* of 2-byte elements through the grouped matrix store
C17_Witness ==
    /\ pc = "stored" /\ T_size = 2 /\ layout = "row" /\ KITTENS_HOPPER
    /\ T_type = "float"
    /\ view = "st_subtile" /\ col_offset > 0
    /\ \E s \in FragSlots : smem[store_addr(dst_ptr, s[1], s[2], s[3], s[4], s[5])] > 1

-----------------------------------------------------------------------------
(* atomic_add as a state machine: NumGroups warps, each holding a register *)
(* tile loaded from a tile of its own, add it into one destination tile;   *)
(* the state follows the destination at one coordinate                     *)

\* 2 .. NumGroups warps add concurrently
NumGroups == 2
\* the elements of the warps' tiles are 0 .. MaxAddend
MaxAddend == 7
\* the tiles added are at most MaxAtomTiles base tiles large
MaxAtomTiles == 2

AtomShapes(sz) ==
    { s \in TileShapes(sz) :
        (s[1] \div TILE_ROW_DIM(sz)) * (s[2] \div TILE_COL_DIM(sz)) <= MaxAtomTiles }

\* the coordinates observed
AtomTargets == { <<0, 0>>, <<9, 1>>, <<rows - 8, 10>>, <<rows - 1, cols - 1>> }

\* the tile warp w loaded its register tile from, at ptr
SrcTile(w) ==
    [a \in { x \in ptr .. (ptr + TileBytes - 1) : (x - ptr) % T_size = 0 } |->
        (((a - ptr) \div T_size) + ((a - ptr) \div (16 * T_size)) + 3 * w) % (MaxAddend + 1)]

\* the register tile of warp w
Frag(w) == load(SrcTile(w), ptr, [s \in FragSlots |-> 0])

\* the registers atomic_add adds at the address of the coordinate rc
Hits(rc) ==
    LET a == ST_idx(dst_ptr, rc[1], rc[2])
    IN  { s \in FragSlots : atomic_add_addr(dst_ptr, s[1], s[2], s[3], s[4], s[5]) = a }

InitAtomic ==
    /\ \E tp \in TypePairs : U_type = tp[1] /\ T_type = tp[2]
    /\ T_size = SizeOf(U_type)
    /\ layout \in {"row", "col"}
    /\ KITTENS_HOPPER = FALSE
    /\ \E s \in AtomShapes(T_size) : rows = s[1] /\ cols = s[2]
    /\ ptr \in {0, KITTENS_DEFAULT_ALIGN * MaxBaseSlots}
    /\ dst_ptr = ptr + TileBytes
    /\ view = "st"
    /\ sub_rows = rows /\ sub_cols = cols
    /\ row_offset = 0 /\ col_offset = 0
    /\ quantum = <<0, 0>>
    /\ image = << >>
    /\ smem = << >> /\ reg = << >> /\ pc = "init"
    /\ build = IF atomic_add_supported THEN "ok" ELSE "rejected"
    /\ target \in AtomTargets
    /\ initial = (target[1] + target[2]) % (MaxAddend + 1)
    /\ cell = initial
    /\ LET hits == IF build = "ok" THEN Hits(target) ELSE {}
       IN  \E K \in 2 .. NumGroups :
            /\ pending = [w \in 1 .. K |-> hits]
            /\ applied = [w \in 1 .. K |-> 0]
    /\ MmaIdle /\ SvIdle /\ BuildIdle /\ PrintIdle

\* one atomic add of warp w's atomic_add, to the address of target
AtomicAdds(w) ==
    /\ build = "ok"
    /\ \E s \in pending[w] :
        /\ cell' = atomic_adds(cell, atomic_add_value(Frag(w), s[1], s[2], s[3], s[4], s[5]))
        /\ pending' = [pending EXCEPT ![w] = @ \ {s}]
        /\ applied' = [applied EXCEPT ![w] = @ + 1]
    /\ UNCHANGED <<svVars, buildVars, descVars, viewVars, xferVars, build, mmaVars, target, initial, printVars>>

NextAtomic == \E w \in DOMAIN pending : AtomicAdds(w)

SpecAtomic == InitAtomic /\ [][NextAtomic]_vars

\* v_w: what warp w's tile holds at the coordinate target
Addend(w) == SrcTile(w)[st_idx(T_size, rows, cols, ptr, target[1], target[2])]

RECURSIVE AppliedSum(_)
AppliedSum(k) == IF k = 0 THEN 0 ELSE AppliedSum(k - 1) + applied[k] * Addend(k)

\* C4: for 2- and 4-byte elements, K warps concurrently running atomic_add
\* into the same coordinate leave it equal to initial + v_1 + ... + v_K under
\* every interleaving of the atomic adds: at every moment the location holds
\* initial plus the addends of the warps that have added, no warp adds twice,
\* and a warp that has finished has added.
C4_AtomicConvergence ==
    (build = "ok" /\ T_size \in {2, 4}) =>
        /\ cell = initial + AppliedSum(Len(applied))
        /\ \A w \in DOMAIN applied :
            /\ applied[w] <= 1
            /\ pending[w] = {} => applied[w] = 1

\* C4 witness: two warps or more have all added, through the 32-bit
\* row-major path, at a coordinate in the lower right of a base tile
C4_Witness ==
    /\ build = "ok" /\ T_size = 4 /\ layout = "row"
    /\ Len(applied) >= 2
    /\ \A w \in DOMAIN applied : pending[w] = {} /\ applied[w] = 1
    /\ target = <<9, 1>>
    /\ cell > initial + Addend(1)

\* C11: atomic_add into a tile of 1-byte elements is rejected at build time,
\* for row-major and for column-major register tiles alike: no such
\* instantiation is ever built, so none runs, adds nothing or fails at run
\* time; and nothing but the 1-byte element size is rejected.
C11_OneByteRejected ==
    /\ T_size = 1 =>
            /\ build = "rejected"
            /\ cell = initial
            /\ \A w \in DOMAIN applied : applied[w] = 0
    /\ build = "rejected" => T_size = 1

\* C11 witness: the instantiation for a column-major register tile and a
\* 1-byte tile was rejected
C11_Witness ==
    /\ T_size = 1 /\ layout = "col" /\ U_type = "fp8e4m3"
    /\ build = "rejected"
    /\ Len(applied) >= 2


-----------------------------------------------------------------------------
(* wgmma::base<T_D, T_AB, 80, trans_a, trans_b>: what rt_st and st_st hand  *)
(* to the assembler                                                         *)

\* the shape m64n80k16 of the instruction
MMA_M == 64
MMA_N == 80
MMA_K == 16

\* a static_assert that lets (half, bf16) through as well
valid_type_combination_wide(td, tab) ==
    \/ (td = "float" /\ tab = "bf16")
    \/ (td = "float" /\ tab = "half")
    \/ (td = "half" /\ tab = "half")
    \/ (td = "half" /\ tab = "bf16")

\* the static_assert on the type combination, the same in rt_st and st_st
valid_type_combination(td, tab) ==
    \/ (td = "float" /\ tab = "bf16")
    \/ (td = "float" /\ tab = "half")
    \/ (td = "half" /\ tab = "half")

\* a static_assert that only rejects a zero scale_b
valid_scale_b_nonzero(sb) == sb # 0

\* static_assert(scale_b==1 || scale_b==-1, "Invalid scale B (invert) option")
valid_scale_b(sb) == sb = 1 \/ sb = -1

\* operands of an instruction: a literal, the operand %n of the asm
\* statement, or the predicate register p
Lit(v) == [k |-> "lit", v |-> v]
Ref(n) == [k |-> "ref", v |-> n]
Pred == [k |-> "pred", v |-> 0]

\* "setp.ne.b32 p, %n, 0;"
Setp(n) == [op |-> "setp.ne.b32", types |-> << >>, a |-> << >>, args |-> <<Ref(n), Lit(0)>>]
\* "wgmma.mma_async.sync.aligned.m64n80k16.<types> {d...}, a, b-desc, args;"
WgmmaAsync(types, a, args) ==
    [op |-> "wgmma.mma_async", types |-> types, a |-> a, args |-> args]

\* the number of "+f" / "+r" operands bound to dst: 40 floats, or 20 pairs of halves
num_dst_operands(td) == IF td = "float" THEN 40 ELSE 20

\* a binding of dst that lists data[2] before data[1]
dst_operand_swapped(td, n, h) ==
    LET sw(k) == IF k = 1 THEN 2 ELSE IF k = 2 THEN 1 ELSE k
    IN  IF td = "float" THEN <<n \div 8, sw((n % 8) \div 2), n % 2>>
        ELSE <<n \div 4, sw(n % 4), h>>

\* the register <<j, k, e>> of dst (dst.tiles[0][j].data[k], component e) that
\* holds half h of operand %n; a "+f" operand is one component, a "+r"
\* operand is both components of data[k]
dst_operand(td, n, h) ==
    IF td = "float" THEN <<n \div 8, (n % 8) \div 2, n % 2>>
    ELSE <<n \div 4, n % 4, h>>

\* the input operands of rt_st's asm statements, numbered after dst's
rt_st_inputs ==
    << "a_rt.data[0]", "a_rt.data[1]", "a_rt.data[2]", "a_rt.data[3]",
       "b_st_desc", "scale_d", "trans_b", "scale_b" >>

\* the input operands of st_st's asm statements
st_st_inputs ==
    << "a_st_desc", "b_st_desc", "scale_d", "trans_a", "trans_b", "scale_b" >>

\* an rt_st whose predicate is set from the operand after scale_d
rt_st_asm_pred(td, tab) ==
    IF td = "half" /\ tab = "half" THEN
        << Setp(26),
           WgmmaAsync(<<"f16", "f16", "f16">>, <<Ref(20), Ref(21), Ref(22), Ref(23)>>,
                      <<Ref(24), Pred, Lit(1), Ref(27), Ref(26)>>) >>
    ELSE
        << Setp(46),
           WgmmaAsync(IF tab = "bf16" THEN <<"f32", "bf16", "bf16">> ELSE <<"f32", "f16", "f16">>,
                      <<Ref(40), Ref(41), Ref(42), Ref(43)>>,
                      <<Ref(44), Pred, Lit(1), Ref(47), Ref(46)>>) >>

\* the instructions of rt_st, by the if constexpr chain on (T_D, T_AB)
rt_st_asm(td, tab) ==
    IF td = "float" /\ tab = "bf16" THEN
        << Setp(45),
           WgmmaAsync(<<"f32", "bf16", "bf16">>, <<Ref(40), Ref(41), Ref(42), Ref(43)>>,
                      <<Ref(44), Pred, Lit(1), Ref(47), Ref(46)>>) >>
    ELSE IF td = "float" /\ tab = "half" THEN
        << Setp(45),
           WgmmaAsync(<<"f32", "f16", "f16">>, <<Ref(40), Ref(41), Ref(42), Ref(43)>>,
                      <<Ref(44), Pred, Lit(1), Ref(47), Ref(46)>>) >>
    ELSE IF td = "half" /\ tab = "half" THEN
        << Setp(25),
           WgmmaAsync(<<"f16", "f16", "f16">>, <<Ref(20), Ref(21), Ref(22), Ref(23)>>,
                      <<Ref(24), Pred, Lit(1), Ref(27), Ref(26)>>) >>
    ELSE << >>

\* an st_st that passes trans_b for imm-trans-a and trans_a for imm-trans-b
st_st_asm_trans_swapped(td, tab) ==
    IF td = "half" /\ tab = "half" THEN
        << Setp(22),
           WgmmaAsync(<<"f16", "f16", "f16">>, <<Ref(20)>>,
                      <<Ref(21), Pred, Lit(1), Ref(25), Ref(24), Ref(23)>>) >>
    ELSE
        << Setp(42),
           WgmmaAsync(IF tab = "bf16" THEN <<"f32", "bf16", "bf16">> ELSE <<"f32", "f16", "f16">>,
                      <<Ref(40)>>,
                      <<Ref(41), Pred, Lit(1), Ref(45), Ref(44), Ref(43)>>) >>

\* the instructions of st_st
st_st_asm(td, tab) ==
    IF td = "float" /\ tab = "bf16" THEN
        << Setp(42),
           WgmmaAsync(<<"f32", "bf16", "bf16">>, <<Ref(40)>>,
                      <<Ref(41), Pred, Lit(1), Ref(45), Ref(43), Ref(44)>>) >>
    ELSE IF td = "float" /\ tab = "half" THEN
        << Setp(42),
           WgmmaAsync(<<"f32", "f16", "f16">>, <<Ref(40)>>,
                      <<Ref(41), Pred, Lit(1), Ref(45), Ref(43), Ref(44)>>) >>
    ELSE IF td = "half" /\ tab = "half" THEN
        << Setp(22),
           WgmmaAsync(<<"f16", "f16", "f16">>, <<Ref(20)>>,
                      <<Ref(21), Pred, Lit(1), Ref(25), Ref(23), Ref(24)>>) >>
    ELSE << >>


-----------------------------------------------------------------------------
(* The operands of one multiply: A (64x16 after its transform), B (16x80    *)
(* after its transform), the prior accumulator D (64x80)                    *)

\* element (r, c) of A as it is stored
Amat(r, c) == ((3 * r + 5 * c + ((r * c) % 7)) % 5) - 2
\* element (r, c) of B as it is stored
Bmat(r, c) == ((2 * r + 7 * c + ((r % 3) * (c % 4))) % 5) - 2
\* element (m, n) of the accumulator before the multiply
Dprior(m, n) == ((m + 2 * n) % 7) + 1

\* transform(X): the transpose when the flag is set
transform(X(_, _), flag, r, c) == IF flag # 0 THEN X(c, r) ELSE X(r, c)

\* the warp of a thread of the warpgroup, and its lane
warpid(t) == t \div WARP_THREADS
laneid(t) == t % WARP_THREADS

\* the coordinate, within a 16-row register tile in row layout, of
\* tiles[0][j].data[k], component e, of lane l
rt_row(l, k) == (l \div 4) + 8 * (k % 2)
rt_col(l, j, k, e) == 16 * j + 8 * (k \div 2) + 2 * (l % 4) + e

\* the 16x16 block of A, as it is stored, that belongs to the 16 rows of
\* warp w of the result: element (r, c) of the block
a_block(w, r, c) ==
    IF trans_a # 0 THEN Amat(r, 16 * w + c) ELSE Amat(16 * w + r, c)

\* a_rt of warp w holds that block, as one rt_base in row layout: the value
\* of a_rt.data[k], component e, of lane l
a_rt(w, l, k, e) == a_block(w, rt_row(l, k), rt_col(l, 0, k, e))

\* dst before the call, of thread t
dst_prior(t) ==
    [s \in (0 .. (MMA_N \div 16) - 1) \X (0 .. 3) \X (0 .. 1) |->
        Dprior(16 * warpid(t) + rt_row(laneid(t), s[2]), rt_col(laneid(t), s[1], s[2], s[3]))]

-----------------------------------------------------------------------------
(* The asynchronous matrix unit (PTX setp, wgmma.mma_async, wgmma.wait_group) *)

\* the value of the input operand named nm of the asm statement
OperandValue(nm) ==
    IF nm = "scale_d" THEN scale_d
    ELSE IF nm = "scale_b" THEN scale_b
    ELSE IF nm = "trans_a" THEN trans_a
    ELSE IF nm = "trans_b" THEN trans_b
    ELSE 0

\* the value of an instruction operand; nd output operands precede the inputs
Resolve(tok, w, inputs, nd) ==
    IF tok.k = "lit" THEN tok.v
    ELSE IF tok.k = "pred" THEN (IF w.p THEN 1 ELSE 0)
    ELSE OperandValue(inputs[tok.v - nd + 1])

\* the name of the input operand an instruction operand refers to
Named(tok, inputs, nd) == IF tok.k = "ref" THEN inputs[tok.v - nd + 1] ELSE "immediate"

WgIdle ==
    [phase |-> "idle", p |-> FALSE, acc |-> "none", a_src |-> "none",
     scale_d |-> 0, scale_a |-> 0, scale_b |-> 0, trans_a |-> 0, trans_b |-> 0]

\* one instruction executed: setp.ne sets p; wgmma.mma_async latches its
\* operands and leaves the multiply in flight (with A in registers there is
\* no imm-trans-a: A is taken as it lies in the registers); wgmma.wait_group
\* waits until the multiply is complete
Exec(ins, w, inputs, nd) ==
    IF ins.op = "setp.ne.b32" THEN
        [w EXCEPT !.p = Resolve(ins.args[1], w, inputs, nd) # Resolve(ins.args[2], w, inputs, nd)]
    ELSE IF ins.op = "wgmma.mma_async" THEN
        LET regs == Len(ins.a) = 4
        IN  [w EXCEPT !.phase = "in-flight",
                      !.acc = ins.types[1],
                      !.a_src = IF regs THEN <<"regs", [n \in 1 .. 4 |-> Named(ins.a[n], inputs, nd)]>>
                                ELSE <<"desc", <<Named(ins.a[1], inputs, nd)>> >>,
                      !.scale_d = Resolve(ins.args[2], w, inputs, nd),
                      !.scale_a = Resolve(ins.args[3], w, inputs, nd),
                      !.scale_b = Resolve(ins.args[4], w, inputs, nd),
                      !.trans_a = IF regs THEN 0 ELSE Resolve(ins.args[5], w, inputs, nd),
                      !.trans_b = Resolve(ins.args[Len(ins.args)], w, inputs, nd)]
    ELSE IF ins.op = "wgmma.wait_group" /\ w.phase = "in-flight" THEN
        [w EXCEPT !.phase = "complete"]
    ELSE w

RECURSIVE RunAsm(_, _, _, _, _)
RunAsm(asm, n, w, inputs, nd) ==
    IF n > Len(asm) THEN w
    ELSE RunAsm(asm, n + 1, Exec(asm[n], w, inputs, nd), inputs, nd)

\* element (m, k) of the A the unit multiplies: from the warp's registers, by
\* the instruction's fragment layout, or through the descriptor with imm-trans-a
UnitA(w, m, k) ==
    IF w.a_src[1] = "regs"
    THEN LET l == 4 * (m % 8) + ((k % 8) \div 2)
             r == (m % 16) \div 8 + 2 * (k \div 8)
             nm == w.a_src[2][r + 1]
             kk == CHOOSE x \in 0 .. 3 : nm = rt_st_inputs[x + 1]
         IN  a_rt(m \div 16, l, kk, k % 2)
    ELSE transform(Amat, w.trans_a, m, k)

\* element (k, n) of the B the unit multiplies, through the descriptor with imm-trans-b
UnitB(w, k, n) == transform(Bmat, w.trans_b, k, n)

RECURSIVE Dot(_, _, _, _, _)
Dot(X(_, _), Y(_, _), m, n, k) ==
    IF k = 0 THEN 0 ELSE Dot(X, Y, m, n, k - 1) + X(m, k - 1) * Y(k - 1, n)

\* rounding to the accumulator's precision
RoundAcc(v, t) ==
    LET sig == IF t = "f32" THEN SigBits("float") ELSE SigBits("half")
    IN  IF v < 0 THEN 0 - RoundSig(0 - v, sig) ELSE RoundSig(v, sig)

\* element (m, n) of the result: D = (scale-d ? D : 0) + (scale-a A) (scale-b B)
UnitD(w, m, n) ==
    LET ua(r, c) == w.scale_a * UnitA(w, r, c)
        ub(r, c) == w.scale_b * UnitB(w, r, c)
    IN  RoundAcc((IF w.scale_d # 0 THEN Dprior(m, n) ELSE 0) + Dot(ua, ub, m, n, MMA_K), w.acc)

\* the element of D that half h of output operand n of thread t receives
UnitDRow(t, acc, n) ==
    16 * warpid(t) + (laneid(t) \div 4) + 8 * (IF acc = "f32" THEN (n \div 2) % 2 ELSE n % 2)
UnitDCol(t, acc, n, h) ==
    IF acc = "f32" THEN 8 * (n \div 4) + 2 * (laneid(t) % 4) + (n % 2)
    ELSE 8 * (n \div 2) + 2 * (laneid(t) % 4) + h

\* the registers of dst of thread t once the multiply is complete
Completed(w, t, old) ==
    LET nd == num_dst_operands(T_D)
        halves == IF T_D = "float" THEN {0} ELSE {0, 1}
    IN  [s \in DOMAIN old |->
            IF \E n \in 0 .. nd - 1, h \in halves : dst_operand(T_D, n, h) = s
            THEN LET nh == CHOOSE nh \in (0 .. nd - 1) \X halves :
                              dst_operand(T_D, nh[1], nh[2]) = s
                 IN  UnitD(w, UnitDRow(t, w.acc, nh[1]), UnitDCol(t, w.acc, nh[1], nh[2]))
            ELSE old[s]]


-----------------------------------------------------------------------------
(* The dispatcher as a state machine: the instantiation is built, rt_st or  *)
(* st_st is called once, and the caller's synchronization (outside the      *)
(* dispatcher) completes the multiply                                       *)

\* the registers of MaxObserved + 1 threads of the warpgroup are observed
MaxObserved == 4

MmaTypes == {"float", "half", "bf16"}
ScaleValues == {-1, 0, 1, 2}
WarpgroupThreads == (MMA_M \div 16) * WARP_THREADS
ObservedThreads == { (53 * n) % WarpgroupThreads : n \in 0 .. MaxObserved }

\* no shared tile is involved
TileIdle ==
    /\ T_size = 2 /\ rows = 16 /\ cols = 16 /\ ptr = 0
    /\ view = "none" /\ sub_rows = 16 /\ sub_cols = 16
    /\ row_offset = 0 /\ col_offset = 0
    /\ quantum = <<0, 0>> /\ image = << >>

InitMma ==
    /\ mma_fn \in {"rt_st", "st_st"}
    /\ T_D \in MmaTypes /\ T_AB \in MmaTypes
    /\ trans_a \in {0, 1} /\ trans_b \in {0, 1}
    /\ scale_b \in ScaleValues
    /\ scale_d \in ScaleValues
    /\ thread \in ObservedThreads
    /\ dst = dst_prior(thread)
    /\ wg = WgIdle
    /\ trace = << >>
    /\ build = "none"
    /\ TileIdle /\ XferIdle /\ AtomIdle /\ SvIdle /\ BuildIdle /\ PrintIdle

\* the instantiation is compiled: the two static_asserts
Build ==
    /\ build = "none"
    /\ build' = IF valid_type_combination(T_D, T_AB) /\ valid_scale_b(scale_b)
                THEN "ok" ELSE "rejected"
    /\ UNCHANGED <<svVars, buildVars, descVars, viewVars, xferVars, atomVars, mmaVars, printVars>>

\* a call: the asm statement runs on the unit, the call returns
Issue(asm, inputs) ==
    LET w == RunAsm(asm, 1, wg, inputs, num_dst_operands(T_D))
    IN  /\ wg' = w
        /\ trace' = trace \o << <<"issued", mma_fn>> >>
                          \o (IF w.phase # "idle" THEN << <<"in-flight", mma_fn>> >> ELSE << >>)
                          \o (IF w.phase = "complete" THEN << <<"complete", mma_fn>> >> ELSE << >>)
        /\ dst' = IF w.phase = "complete" THEN Completed(w, thread, dst) ELSE dst

\* an st_st that waits for its multiply before it returns
StStWaits ==
    /\ build = "ok" /\ mma_fn = "st_st" /\ trace = << >>
    /\ Issue(st_st_asm(T_D, T_AB)
                \o << [op |-> "wgmma.wait_group", types |-> << >>, a |-> << >>, args |-> <<Lit(0)>>] >>,
             st_st_inputs)
    /\ UNCHANGED <<svVars, buildVars, descVars, viewVars, xferVars, build, atomVars,
                   mma_fn, T_D, T_AB, trans_a, trans_b, scale_b, scale_d, thread, printVars>>

\* base<T_D, T_AB, 80, trans_a, trans_b>::rt_st<scale_b>(dst, a_rt, b_st_desc, scale_d)
RtSt ==
    /\ build = "ok" /\ mma_fn = "rt_st" /\ trace = << >>
    /\ Issue(rt_st_asm(T_D, T_AB), rt_st_inputs)
    /\ UNCHANGED <<svVars, buildVars, descVars, viewVars, xferVars, build, atomVars,
                   mma_fn, T_D, T_AB, trans_a, trans_b, scale_b, scale_d, thread, printVars>>

\* base<T_D, T_AB, 80, trans_a, trans_b>::st_st<scale_b>(dst, a_st_desc, b_st_desc, scale_d)
StSt ==
    /\ build = "ok" /\ mma_fn = "st_st" /\ trace = << >>
    /\ Issue(st_st_asm(T_D, T_AB), st_st_inputs)
    /\ UNCHANGED <<svVars, buildVars, descVars, viewVars, xferVars, build, atomVars,
                   mma_fn, T_D, T_AB, trans_a, trans_b, scale_b, scale_d, thread, printVars>>

\* the caller waits for the multiply (not an operation of the dispatcher)
Sync ==
    /\ wg.phase = "in-flight"
    /\ wg' = [wg EXCEPT !.phase = "complete"]
    /\ dst' = Completed(wg, thread, dst)
    /\ trace' = Append(trace, <<"complete", "sync">>)
    /\ UNCHANGED <<svVars, buildVars, descVars, viewVars, xferVars, build, atomVars,
                   mma_fn, T_D, T_AB, trans_a, trans_b, scale_b, scale_d, thread, printVars>>

NextMma == Build \/ RtSt \/ StSt \/ Sync

SpecMma == InitMma /\ [][NextMma]_vars


-----------------------------------------------------------------------------
(* Properties of the dispatcher *)

\* the coordinate of the result that register s = <<j, k, e>> of dst holds
DstRow(s) == 16 * warpid(thread) + rt_row(laneid(thread), s[2])
DstCol(s) == rt_col(laneid(thread), s[1], s[2], s[3])

\* element (m, n) of the dense product transform(A) @ transform(B)
RefProduct(ta, tb, m, n) ==
    LET ta_A(r, c) == transform(Amat, ta, r, c)
        tb_B(r, c) == transform(Bmat, tb, r, c)
    IN  Dot(ta_A, tb_B, m, n, MMA_K)

\* element (m, n) of (the warp's block of A, as stored) @ transform(B)
BlockProduct(tb, m, n) ==
    LET blk(r, c) == a_block(r \div 16, r % 16, c)
        tb_B(r, c) == transform(Bmat, tb, r, c)
    IN  Dot(blk, tb_B, m, n, MMA_K)

\* what the accumulate flag keeps of the prior D
Kept(s) == IF scale_d # 0 THEN Dprior(DstRow(s), DstCol(s)) ELSE 0

MmaComplete == wg.phase = "complete"

AcceptedPairs == { <<"float", "bf16">>, <<"float", "half">>, <<"half", "half">> }

\* C5: float accumulator, 16-bit operands, accumulate = false, no transposes:
\* a 64x16 A times a 16x80 B of small integers gives exactly the dense product
\* A @ B, each warp holding its 16x80 slice.
C5_DenseProduct ==
    (/\ MmaComplete
     /\ T_D = "float" /\ T_AB \in {"bf16", "half"}
     /\ scale_d = 0 /\ scale_b = 1 /\ trans_a = 0 /\ trans_b = 0) =>
        \A s \in DOMAIN dst : dst[s] = RefProduct(0, 0, DstRow(s), DstCol(s))

\* C5 witness: a thread of the last warp holds its part of the product, by rt_st
C5_Witness ==
    /\ MmaComplete /\ mma_fn = "rt_st"
    /\ T_D = "float" /\ T_AB = "bf16"
    /\ scale_d = 0 /\ scale_b = 1 /\ trans_a = 0 /\ trans_b = 0
    /\ warpid(thread) = 3
    /\ dst # dst_prior(thread)

\* C6: scale_d selects between two behaviours only: with scale_d = 0 the
\* result is the signed product whatever dst held, with any nonzero scale_d
\* it is the prior D, unscaled, plus the signed product.
C6_ScaleDPredicate ==
    MmaComplete =>
        \A s \in DOMAIN dst :
            LET product == scale_b * (IF mma_fn = "st_st"
                                      THEN RefProduct(trans_a, trans_b, DstRow(s), DstCol(s))
                                      ELSE BlockProduct(trans_b, DstRow(s), DstCol(s)))
            IN  /\ scale_d = 0 => dst[s] = product
                /\ scale_d # 0 => dst[s] - product = Dprior(DstRow(s), DstCol(s))

\* C6 witness: a multiply completed with a scale_d that is neither 0 nor 1
C6_Witness ==
    /\ MmaComplete
    /\ scale_d \notin {0, 1}
    /\ T_D = "half"
    /\ dst # dst_prior(thread)

\* C7 as stated: in rt_st and in st_st alike the product is
\* transform(A) @ transform(B), transform(A) by trans_a and transform(B) by
\* trans_b.
C7_BothTransposesHonoured ==
    MmaComplete =>
        \A s \in DOMAIN dst :
            dst[s] = Kept(s) + scale_b * RefProduct(trans_a, trans_b, DstRow(s), DstCol(s))

\* C7 (amended): st_st multiplies transform(A) @ transform(B) by both flags;
\* rt_st applies trans_b only, and multiplies the A fragment as it lies in
\* the registers whatever trans_a is.
C7_TransposesAsIssued ==
    /\ wg.phase # "idle" =>
        /\ wg.trans_b = trans_b
        /\ wg.trans_a = IF mma_fn = "st_st" THEN trans_a ELSE 0
    /\ MmaComplete =>
        \A s \in DOMAIN dst :
            dst[s] = Kept(s) + scale_b *
                (IF mma_fn = "st_st"
                 THEN RefProduct(trans_a, trans_b, DstRow(s), DstCol(s))
                 ELSE BlockProduct(trans_b, DstRow(s), DstCol(s)))

\* C7 witness: st_st completed with trans_a set and trans_b clear
C7_Witness ==
    /\ MmaComplete /\ mma_fn = "st_st"
    /\ trans_a = 1 /\ trans_b = 0
    /\ dst # dst_prior(thread)

\* C8: a call never waits: it takes the multiply from issued to in-flight
\* and returns with dst untouched; the multiply becomes complete only by the
\* caller's synchronization; the phases come in the order issued, in-flight,
\* complete; no instruction of the dispatcher waits.
C8_IssueThenExternalSync ==
    /\ \A n \in DOMAIN trace :
        /\ trace[n][1] = <<"issued", "in-flight", "complete">>[n]
        /\ trace[n][2] = IF trace[n][1] = "complete" THEN "sync" ELSE mma_fn
    /\ Len(trace) # 1
    /\ Len(trace) = 2 <=> wg.phase = "in-flight"
    /\ Len(trace) = 3 <=> wg.phase = "complete"
    /\ wg.phase \in {"idle", "in-flight"} => dst = dst_prior(thread)
    /\ \A n \in DOMAIN rt_st_asm(T_D, T_AB) :
        rt_st_asm(T_D, T_AB)[n].op \in {"setp.ne.b32", "wgmma.mma_async"}
    /\ \A n \in DOMAIN st_st_asm(T_D, T_AB) :
        st_st_asm(T_D, T_AB)[n].op \in {"setp.ne.b32", "wgmma.mma_async"}

\* C8 witness: st_st returned with the multiply in flight and dst untouched
C8_Witness ==
    /\ mma_fn = "st_st"
    /\ wg.phase = "in-flight"
    /\ trace = << <<"issued", "st_st">>, <<"in-flight", "st_st">> >>

\* C9: the build accepts exactly (float, bf16), (float, half), (half, half);
\* for any other pair it is rejected and nothing is issued.
C9_AcceptedTypePairs ==
    /\ build = "ok" => <<T_D, T_AB>> \in AcceptedPairs
    /\ (build # "none" /\ <<T_D, T_AB>> \in AcceptedPairs /\ scale_b \in {1, -1}) => build = "ok"
    /\ <<T_D, T_AB>> \notin AcceptedPairs =>
        /\ build \in {"none", "rejected"}
        /\ trace = << >> /\ wg.phase = "idle"

\* C9 witness: (half, bf16) with a valid scale_b went through the build
C9_Witness ==
    /\ build = "rejected"
    /\ T_D = "half" /\ T_AB = "bf16"
    /\ scale_b = 1

\* C10: scale_b is accepted only when +1 or -1; it is the scale of B, and the
\* scale of A is always +1.
C10_ScaleB ==
    /\ build = "ok" => scale_b \in {1, -1}
    /\ (build # "none" /\ scale_b \notin {1, -1}) =>
        /\ build = "rejected"
        /\ trace = << >> /\ wg.phase = "idle"
    /\ wg.phase # "idle" => (wg.scale_a = 1 /\ wg.scale_b = scale_b)

\* C10 witness: a multiply was issued with scale_b = -1
C10_Witness ==
    /\ wg.phase = "in-flight"
    /\ scale_b = 0 - 1
    /\ wg.scale_b = 0 - 1 /\ wg.scale_a = 1

-----------------------------------------------------------------------------
(* sv<T, length>: the shared vector                                         *)

\* vectors are 1 .. MaxVecTiles base tiles long
MaxVecTiles == 4
\* after writing every index once the caller overwrites VecRewrites indices
VecRewrites == 2

\* the static_asserts of sv: the length, and no fp8 vectors on Hopper
sv_valid(t, len, hopper) ==
    /\ len % TILE_ROW_DIM(SizeOf(t)) = 0
    /\ hopper => t # "fp8e4m3"

\* sv::num_alloc_elements
num_alloc_elements(sz, len, hopper) ==
    IF hopper THEN ((len * sz + 127) \div 128) * (128 \div sz) ELSE len

\* an indexing that maps the two indices of a packed pair to one element
sv_idx_paired(p, sz, idx) == p + sz * (2 * (idx \div 2))

\* the address of data[idx], data at p
sv_idx(p, sz, idx) == p + sz * idx

\* a fill that runs over the whole allocation
sv_fill_lane_alloc(l, len) ==
    LET bound == num_alloc_elements(T_size, len, KITTENS_HOPPER)
        trips == IF l < bound THEN (bound - l + WARP_THREADS - 1) \div WARP_THREADS ELSE 0
    IN  [n \in 1 .. trips |-> l + WARP_THREADS * (n - 1)]

\* operator=: the indices lane l writes, in order:
\* for(int i = laneid(); i < length; i += WARP_THREADS)
sv_fill_lane(l, len) ==
    LET trips == IF l < len THEN (len - l + WARP_THREADS - 1) \div WARP_THREADS ELSE 0
    IN  [n \in 1 .. trips |-> l + WARP_THREADS * (n - 1)]

\* operator=: the indices written by lanes l .. WARP_THREADS-1
RECURSIVE sv_fill(_, _)
sv_fill(l, len) ==
    IF l = WARP_THREADS THEN << >>
    ELSE sv_fill_lane(l, len) \o sv_fill(l + 1, len)

\* what the vector's storage holds before the caller wrote anything
SvInitValue(n) == 10 + (n % 3)
\* the values the caller fills with
FillValues == {6, 7}
\* the orders in which the caller writes the indices
SvPlans == { <<1, 0>>, <<7, 5>> }
SvLengths == { TILE_ROW_DIM(2) * k : k \in 1 .. MaxVecTiles }

InitVec ==
    /\ U_type \in ElemTypes
    /\ T_size = SizeOf(U_type)
    /\ KITTENS_HOPPER \in BOOLEAN
    /\ ptr \in {0, KITTENS_DEFAULT_ALIGN * MaxBaseSlots}
    /\ sv_length \in SvLengths
    /\ sv_plan \in SvPlans
    /\ build = IF sv_valid(U_type, sv_length, KITTENS_HOPPER) THEN "ok" ELSE "rejected"
    /\ sv_data = IF build = "ok"
                 THEN [a \in { ptr + T_size * n :
                                 n \in 0 .. num_alloc_elements(T_size, sv_length, KITTENS_HOPPER) - 1 } |->
                          SvInitValue((a - ptr) \div T_size)]
                 ELSE << >>
    /\ sv_count = [a \in DOMAIN sv_data |-> 0]
    /\ sv_last = [i \in 0 .. sv_length - 1 |-> SvInitValue(i)]
    /\ sv_out = << >>
    /\ sv_step = 0
    /\ rows = 16 /\ cols = 16
    /\ view = "none" /\ sub_rows = 16 /\ sub_cols = 16
    /\ row_offset = 0 /\ col_offset = 0
    /\ quantum = <<0, 0>> /\ image = << >>
    /\ T_type = "none" /\ layout = "row" /\ dst_ptr = 0
    /\ smem = << >> /\ reg = << >> /\ pc = "init"
    /\ AtomIdle /\ MmaIdle /\ BuildIdle /\ PrintIdle

\* vec = value, collectively by the 32 lanes
SvFill ==
    /\ build = "ok"
    /\ sv_step = 0
    /\ \A a \in DOMAIN sv_count : sv_count[a] = 0
    /\ \E value \in FillValues, w \in { sv_fill(0, sv_length) } :
        LET hit(a) == { n \in DOMAIN w : sv_idx(ptr, T_size, w[n]) = a }
        IN  /\ sv_data' = [a \in DOMAIN sv_data |-> IF hit(a) # {} THEN value ELSE sv_data[a]]
            /\ sv_count' = [a \in DOMAIN sv_count |-> Cardinality(hit(a))]
            /\ sv_last' = [i \in DOMAIN sv_last |->
                              IF \E n \in DOMAIN w : w[n] = i THEN value ELSE sv_last[i]]
    /\ UNCHANGED <<descVars, viewVars, xferVars, build, atomVars, mmaVars, buildVars,
                   sv_length, sv_plan, sv_out, sv_step, printVars>>

\* vec[i] = v, by one thread
SvWrite ==
    /\ build = "ok"
    /\ sv_step < sv_length + VecRewrites
    /\ LET i == (sv_plan[2] + sv_plan[1] * sv_step) % sv_length
           v == 1 + ((3 * sv_step + i) % 5)
       IN  /\ sv_data' = [sv_data EXCEPT ![sv_idx(ptr, T_size, i)] = v]
           /\ sv_last' = [sv_last EXCEPT ![i] = v]
    /\ sv_step' = sv_step + 1
    /\ UNCHANGED <<descVars, viewVars, xferVars, build, atomVars, mmaVars, buildVars,
                   sv_length, sv_plan, sv_count, sv_out, printVars>>

\* v = vec[i], once the caller has written
SvRead ==
    /\ build = "ok"
    /\ sv_step = sv_length + VecRewrites
    /\ \E i \in 0 .. sv_length - 1 :
        sv_out' = <<i, sv_data[sv_idx(ptr, T_size, i)]>>
    /\ UNCHANGED <<descVars, viewVars, xferVars, build, atomVars, mmaVars, buildVars,
                   sv_length, sv_plan, sv_data, sv_count, sv_last, sv_step, printVars>>

NextVec == SvFill \/ SvWrite \/ SvRead

SpecVec == InitVec /\ [][NextVec]_vars

\* C12: a shared vector (of 32 two-byte elements, and of every other length
\* and element size) written through operator[] holds at every index the value
\* last written there, a read returns it, and a write at index i leaves the
\* value at every other index as it was: indices map 1:1 to elements.
C12_VectorRoundTrip ==
    (build = "ok" /\ sv_length > 0) =>
        /\ \A i \in 0 .. sv_length - 1 : sv_data[sv_idx(ptr, T_size, i)] = sv_last[i]
        /\ sv_out # << >> => sv_out[2] = sv_last[sv_out[1]]

\* C12 witness: a vector of 32 two-byte elements, every index written, two
\* of them twice, and the last index read back
C12_Witness ==
    /\ build = "ok" /\ sv_length = 32 /\ T_size = 2
    /\ sv_step >= 32 + VecRewrites
    /\ sv_plan[1] > 1
    /\ sv_out # << >> /\ sv_out[1] = 31 /\ sv_out[2] \in 1 .. 5

\* operator= has run
SvFilled == \E a \in DOMAIN sv_count : sv_count[a] > 0

\* C20: the vector's scalar fill, run by the 32 lanes, writes each index in
\* [0, length) exactly once and no padding index in
\* [length, num_alloc_elements); num_alloc_elements is length rounded up to
\* the next 128-byte boundary under KITTENS_HOPPER and length otherwise.
C20_FillFrame ==
    (build = "ok" /\ sv_length > 0) =>
        LET n == Cardinality(DOMAIN sv_data)
        IN  /\ IF KITTENS_HOPPER
               THEN /\ (n * T_size) % 128 = 0
                    /\ n >= sv_length
                    /\ (n - sv_length) * T_size < 128
               ELSE n = sv_length
            /\ SvFilled =>
                /\ \A i \in 0 .. sv_length - 1 : sv_count[ptr + T_size * i] = 1
                /\ \A i \in sv_length .. n - 1 :
                    /\ sv_count[ptr + T_size * i] = 0
                    /\ sv_data[ptr + T_size * i] = SvInitValue(i)

\* C20 witness: a padded vector longer than the warp was filled
C20_Witness ==
    /\ build = "ok" /\ KITTENS_HOPPER /\ T_size = 2 /\ sv_length = 48
    /\ Cardinality(DOMAIN sv_data) = 64
    /\ SvFilled
    /\ sv_data[ptr + T_size * 47] \in FillValues

-----------------------------------------------------------------------------
(* One instantiation, from its static_asserts to its first run: a tile, a   *)
(* subtile, a vector, or a load, store or atomic_add of a register tile     *)

\* declared extents run from half a base tile to MaxDeclTiles base tiles
MaxDeclTiles == 2

\* the extents declared, for a base-tile extent of q
DeclExtents(q) == { (q \div 2) * k : k \in 1 .. 2 * MaxDeclTiles }

BuildKinds == {"st", "st_subtile", "sv", "load", "store", "atomic_add"}
TransferKinds == {"load", "store", "atomic_add"}

\* a transfer that compares the heights only
transfer_valid_height(fh, fw, sh, sw) == fh = sh

\* the static_asserts of load, store and atomic_add on the shapes:
\* RT::height == ST::height, RT::width == ST::width
transfer_valid(fh, fw, sh, sw) == fh = sh /\ fw = sw

\* every static_assert the instantiation runs into
static_asserts ==
    CASE kind = "st" -> ValidShape(T_size, rows, cols) /\ packing_num(U_type) = 1
      [] kind = "st_subtile" ->
            /\ ValidShape(T_size, rows, cols) /\ packing_num(U_type) = 1
            /\ ValidShape(T_size, sub_rows, sub_cols)
      [] kind = "sv" -> sv_valid(U_type, sv_length, KITTENS_HOPPER)
      [] kind \in {"load", "store"} ->
            /\ ValidShape(T_size, rows, cols)
            /\ transfer_valid(frag_height, frag_width,
                              rows \div TILE_ROW_DIM(T_size), cols \div TILE_COL_DIM(T_size))
      [] kind = "atomic_add" ->
            /\ ValidShape(T_size, rows, cols)
            /\ transfer_valid(frag_height, frag_width,
                              rows \div TILE_ROW_DIM(T_size), cols \div TILE_COL_DIM(T_size))
            /\ atomic_add_supported
      [] OTHER -> TRUE

\* atomic_add: the adds numbered lo .. hi-1 of the warp applied to mem
RECURSIVE atomic_add_range(_, _, _, _, _)
atomic_add_range(mem, tgt, frag, lo, hi) ==
    IF hi - lo = 1
    THEN LET s == LaneSlot(lo \div SlotsPerLane, lo % SlotsPerLane)
             a == tgt[s]
         IN  IF a \in DOMAIN mem
             THEN [mem EXCEPT ![a] = atomic_adds(@, atomic_add_value(frag, s[1], s[2], s[3], s[4], s[5]))]
             ELSE mem
    ELSE LET mid == (lo + hi) \div 2
             first == atomic_add_range(mem, tgt, frag, lo, mid)
         IN  IF DOMAIN first = {} THEN first
             ELSE atomic_add_range(first, tgt, frag, mid, hi)

\* atomic_add(dst, src): shared memory after the warp's adds, dst at p
atomic_add(mem, p, frag) ==
    atomic_add_range(mem, [s \in FragSlots |-> atomic_add_addr(p, s[1], s[2], s[3], s[4], s[5])],
                     frag, 0, WARP_THREADS * SlotsPerLane)

InitBuild ==
    /\ kind \in BuildKinds
    /\ U_type \in {"fp8e4m3", "bf16", "float"}
                    \cup (IF kind \in {"st", "st_subtile"} THEN {"double"} ELSE {})
    /\ T_type = U_type
    /\ T_size = SizeOf(U_type)
    /\ KITTENS_HOPPER \in (IF kind = "sv" THEN BOOLEAN ELSE {T_size = 1})
    /\ layout \in (IF kind \in TransferKinds THEN {"row", "col"} ELSE {"row"})
    /\ IF kind = "sv" THEN rows = 16 /\ cols = 16
       ELSE IF kind = "st_subtile"
       THEN rows = MaxDeclTiles * TILE_ROW_DIM(T_size) /\ cols = MaxDeclTiles * TILE_COL_DIM(T_size)
       ELSE rows \in DeclExtents(TILE_ROW_DIM(T_size)) /\ cols \in DeclExtents(TILE_COL_DIM(T_size))
    /\ IF kind = "st_subtile"
       THEN sub_rows \in DeclExtents(TILE_ROW_DIM(T_size)) /\ sub_cols \in DeclExtents(TILE_COL_DIM(T_size))
       ELSE sub_rows = rows /\ sub_cols = cols
    /\ view = IF kind = "sv" THEN "none" ELSE IF kind = "st_subtile" THEN "st_subtile" ELSE "st"
    /\ row_offset = 0 /\ col_offset = 0
    /\ IF kind \in TransferKinds
       THEN frag_height \in 1 .. MaxDeclTiles /\ frag_width \in 1 .. MaxDeclTiles
       ELSE frag_height = 0 /\ frag_width = 0
    /\ sv_length \in (IF kind = "sv" THEN DeclExtents(TILE_ROW_DIM(T_size)) ELSE {0})
    /\ ptr = 0 /\ dst_ptr = 0
    /\ quantum = <<0, 0>> /\ image = << >>
    /\ smem = << >> /\ reg = << >> /\ pc = "init"
    /\ sv_plan = <<1, 0>> /\ sv_data = << >> /\ sv_count = << >> /\ sv_last = << >>
    /\ sv_out = << >> /\ sv_step = 0
    /\ build = "none"
    /\ accesses = 0
    /\ AtomIdle /\ MmaIdle /\ PrintIdle

\* the instantiation is compiled; if it builds, its storage exists
Compile ==
    /\ build = "none"
    /\ build' = IF static_asserts THEN "ok" ELSE "rejected"
    /\ smem' = IF static_asserts /\ kind # "sv"
               THEN [a \in TileAddrs(ptr) |-> Pattern(3, (a - ptr) \div T_size)]
               ELSE << >>
    /\ reg' = IF static_asserts /\ kind \in TransferKinds
              THEN [s \in FragSlots |-> (s[1] + s[4] + s[5]) % 8]
              ELSE << >>
    /\ sv_data' = IF static_asserts /\ kind = "sv"
                  THEN [a \in { ptr + T_size * n :
                                  n \in 0 .. num_alloc_elements(T_size, sv_length, KITTENS_HOPPER) - 1 } |->
                           SvInitValue((a - ptr) \div T_size)]
                  ELSE << >>
    /\ UNCHANGED <<descVars, viewVars, atomVars, mmaVars, U_type, T_type, layout,
                   KITTENS_HOPPER, dst_ptr, pc, sv_length, sv_plan, sv_count, sv_last,
                   sv_out, sv_step, kind, frag_height, frag_width, accesses, printVars>>

\* tile[{r, c}] (or sub[{r, c}]) for every coordinate of the first base tile
RunTile ==
    /\ build = "ok" /\ kind \in {"st", "st_subtile"} /\ accesses = 0
    /\ image' = [rc \in QuantumDomain(T_size, <<0, 0>>) |->
                    IF SwizzleOf(T_size, cols) > 0
                    THEN ST_idx(ptr, rc[1], rc[2])
                    ELSE st_idx_no_period(T_size, rows, ptr, rc[1] + row_offset, rc[2] + col_offset)]
    /\ accesses' = TILE_ROW_DIM(T_size) * TILE_COL_DIM(T_size)
    /\ UNCHANGED <<descVars, xferVars, build, atomVars, mmaVars, svVars, view, sub_rows,
                   sub_cols, row_offset, col_offset, quantum, kind, frag_height, frag_width, printVars>>

\* vec = value
RunVector ==
    /\ build = "ok" /\ kind = "sv" /\ accesses = 0
    /\ \E value \in FillValues, w \in { sv_fill(0, sv_length) } :
        /\ sv_data' = [a \in DOMAIN sv_data |->
                          IF \E n \in DOMAIN w : sv_idx(ptr, T_size, w[n]) = a
                          THEN value ELSE sv_data[a]]
        /\ accesses' = Len(w)
    /\ UNCHANGED <<descVars, viewVars, xferVars, build, atomVars, mmaVars, sv_length,
                   sv_plan, sv_count, sv_last, sv_out, sv_step, kind, frag_height, frag_width, printVars>>

\* load(fragment, tile)
RunLoad ==
    /\ build = "ok" /\ kind = "load" /\ accesses = 0 /\ pc = "init"
    /\ reg' = load(smem, ptr, reg)
    /\ pc' = "loaded"
    /\ accesses' = IF load_has_branch THEN Cardinality(FragSlots) ELSE 0
    /\ UNCHANGED <<descVars, viewVars, build, atomVars, mmaVars, svVars, U_type, T_type,
                   layout, KITTENS_HOPPER, dst_ptr, smem, kind, frag_height, frag_width, printVars>>

\* store(tile, fragment)
RunStore ==
    /\ build = "ok" /\ kind = "store" /\ accesses = 0
    /\ LET tgt == store_addrs(dst_ptr)
       IN  \E order \in LaneOrders : smem' = store(smem, tgt, reg, order)
    /\ pc' = "stored"
    /\ accesses' = Cardinality(FragSlots)
    /\ UNCHANGED <<descVars, viewVars, build, atomVars, mmaVars, svVars, U_type, T_type,
                   layout, KITTENS_HOPPER, dst_ptr, reg, kind, frag_height, frag_width, printVars>>

\* atomic_add(tile, fragment)
RunAtomicAdd ==
    /\ build = "ok" /\ kind = "atomic_add" /\ accesses = 0
    /\ smem' = atomic_add(smem, dst_ptr, reg)
    /\ pc' = "stored"
    /\ accesses' = Cardinality(FragSlots)
    /\ UNCHANGED <<descVars, viewVars, build, atomVars, mmaVars, svVars, U_type, T_type,
                   layout, KITTENS_HOPPER, dst_ptr, reg, kind, frag_height, frag_width, printVars>>

NextBuild == Compile \/ RunTile \/ RunVector \/ RunLoad \/ RunStore \/ RunAtomicAdd

SpecBuild == InitBuild /\ [][NextBuild]_vars

\* whether the declared shapes keep the shape contracts
ShapesHonoured ==
    LET qr == TILE_ROW_DIM(T_size)
        qc == TILE_COL_DIM(T_size)
        tile_ok == rows % qr = 0 /\ cols % qc = 0
        sub_ok == sub_rows % qr = 0 /\ sub_cols % qc = 0
        frag_ok == frag_height * qr = rows /\ frag_width * qc = cols
    IN  CASE kind = "st" -> tile_ok
          [] kind = "st_subtile" -> tile_ok /\ sub_ok
          [] kind = "sv" -> sv_length % qr = 0
          [] kind \in TransferKinds -> tile_ok /\ frag_ok
          [] OTHER -> TRUE

\* C18: the shape contracts are enforced when the instantiation is built and
\* never at run time: a tile or subtile whose rows or cols are not multiples
\* of the base tile, a vector whose length is not, and a load, store or
\* atomic_add whose register tile and shared tile differ in height or width
\* are rejected by the build, before any access to shared memory.
C18_ShapeContracts ==
    kind # "none" =>
        /\ (build # "none" /\ ~ShapesHonoured) => build = "rejected"
        /\ build = "rejected" =>
            /\ accesses = 0 /\ pc = "init"
            /\ smem = << >> /\ reg = << >> /\ sv_data = << >> /\ image = << >>
        /\ accesses > 0 => (build = "ok" /\ ShapesHonoured)
        /\ pc # "init" => (build = "ok" /\ ShapesHonoured)

\* C18 witness: an atomic_add of a register tile one base tile wide into a
\* well-formed 2-byte tile two base tiles wide was rejected
C18_Witness ==
    /\ kind = "atomic_add" /\ T_size = 2
    /\ rows = 16 /\ cols = 32
    /\ frag_height = 1 /\ frag_width = 1
    /\ build = "rejected"
    /\ accesses = 0

-----------------------------------------------------------------------------
(* print(sv) and print(tile), called by every thread of one warp; a printf  *)
(* is one step, and the threads' steps interleave                           *)

\* constexpr int max_display (sv), max_display_rows, max_display_cols (st)
max_display == 10
max_display_rows == 6
max_display_cols == 10

\* the guard with lanes 0 and 16 printing
print_lane_half(l) == l % 16 = 0

\* if(laneid() == 0)
print_lane(l) == l = 0

\* the format print(sv) uses for an element
sv_fmt == IF U_type \in {"bf16", "half", "float"} THEN "%f" ELSE "%d"

\* the printfs of iteration i of the loop of print(sv)
sv_print_elem(i) ==
    LET show_begin == IF sv_length <= max_display THEN sv_length ELSE max_display \div 2
        show_end == IF sv_length <= max_display THEN 0 ELSE max_display \div 2
    IN  IF i >= show_begin /\ i < sv_length - show_end
        THEN IF i = show_begin THEN << <<"... ", << >> >> >> ELSE << >>
        ELSE << <<sv_fmt, <<sv_data[sv_idx(ptr, T_size, i)]>> >> >>
             \o (IF i < sv_length - 1 /\ (i < show_begin - 1 \/ i >= sv_length - show_end)
                 THEN << <<", ", << >> >> >> ELSE << >>)

\* the printfs of iterations lo .. hi-1 of the loop of print(sv)
RECURSIVE sv_print_range(_, _)
sv_print_range(lo, hi) ==
    IF hi <= lo THEN << >>
    ELSE IF hi - lo = 1 THEN sv_print_elem(lo)
    ELSE sv_print_range(lo, (lo + hi) \div 2) \o sv_print_range((lo + hi) \div 2, hi)

\* print(sv): the printfs the printing thread makes, <<format, arguments>>
sv_print ==
    << <<"Shared Vector %d: [", <<sv_length>> >> >> \o sv_print_range(0, sv_length)
    \o << <<"]\n", << >> >> >>

\* the printfs of column c of row r of print(tile)
st_print_elem(r, c) ==
    LET show_cols_begin == IF cols <= max_display_cols THEN cols ELSE max_display_cols \div 2
        show_cols_end == IF cols <= max_display_cols THEN 0 ELSE max_display_cols \div 2
    IN  IF c >= show_cols_begin /\ c < cols - show_cols_end
        THEN IF c = show_cols_begin THEN << <<" ... ", << >> >> >> ELSE << >>
        ELSE << <<"%.4f", <<smem[st_idx(T_size, rows, cols, ptr, r, c)]>> >> >>
             \o (IF c < cols - 1 /\ (c < show_cols_begin - 1 \/ c >= cols - show_cols_end)
                 THEN << <<", ", << >> >> >> ELSE << >>)

\* the printfs of columns lo .. hi-1 of row r
RECURSIVE st_print_cols(_, _, _)
st_print_cols(r, lo, hi) ==
    IF hi <= lo THEN << >>
    ELSE IF hi - lo = 1 THEN st_print_elem(r, lo)
    ELSE st_print_cols(r, lo, (lo + hi) \div 2) \o st_print_cols(r, (lo + hi) \div 2, hi)

\* the printfs of iteration r of the loop over the rows
st_print_row(r) ==
    LET show_rows_begin == IF rows <= max_display_rows THEN rows ELSE max_display_rows \div 2
        show_rows_end == IF rows <= max_display_rows THEN 0 ELSE max_display_rows \div 2
    IN  IF r >= show_rows_begin /\ r < rows - show_rows_end
        THEN IF r = show_rows_begin THEN << <<"  ...\n", << >> >> >> ELSE << >>
        ELSE << <<"  [", << >> >> >> \o st_print_cols(r, 0, cols)
             \o << <<IF r < rows - 1 THEN "],\n" ELSE "]\n", << >> >> >>

\* the printfs of rows lo .. hi-1
RECURSIVE st_print_rows(_, _)
st_print_rows(lo, hi) ==
    IF hi <= lo THEN << >>
    ELSE IF hi - lo = 1 THEN st_print_row(lo)
    ELSE st_print_rows(lo, (lo + hi) \div 2) \o st_print_rows((lo + hi) \div 2, hi)

\* print(tile): the printfs the printing thread makes
st_print ==
    << <<"Shared Tile(%d, %d)[\n", <<rows, cols>> >> >> \o st_print_rows(0, rows)
    \o << <<"]\n", << >> >> >>

\* the printfs of the call that is made
print_text == IF print_of = "sv" THEN sv_print ELSE st_print

\* the orders in which the threads reach the call: lane 0 first, last, in the middle
PrintOrders ==
    { [n \in 1 .. WARP_THREADS |-> n - 1],
      [n \in 1 .. WARP_THREADS |-> WARP_THREADS - n],
      [n \in 1 .. WARP_THREADS |-> (n + 15) % WARP_THREADS] }

\* what is printed: <<what, length or rows, cols>>
PrintObjects(sz) ==
    { <<"sv", 16, 16>>, <<"sv", 32, 16>>,
      <<"st", 2 * TILE_ROW_DIM(sz), 2 * TILE_COL_DIM(sz)>> }

InitPrint ==
    /\ U_type \in {"fp8e4m3", "bf16", "float"}
    /\ T_type = U_type
    /\ T_size = SizeOf(U_type)
    /\ \E o \in PrintObjects(T_size) :
        /\ print_of = o[1]
        /\ sv_length = IF o[1] = "sv" THEN o[2] ELSE 0
        /\ rows = IF o[1] = "st" THEN o[2] ELSE 16
        /\ cols = o[3]
    /\ KITTENS_HOPPER = (print_of = "st" /\ T_size = 1)
    /\ ptr = KITTENS_DEFAULT_ALIGN
    /\ dst_ptr = ptr
    /\ smem = IF print_of = "st"
              THEN [a \in TileAddrs(ptr) |-> Pattern(1, (a - ptr) \div T_size)]
              ELSE << >>
    /\ sv_data = IF print_of = "sv"
                 THEN [a \in { ptr + T_size * n :
                                 n \in 0 .. num_alloc_elements(T_size, sv_length, KITTENS_HOPPER) - 1 } |->
                          SvInitValue((a - ptr) \div T_size)]
                 ELSE << >>
    /\ sv_plan = <<1, 0>> /\ sv_count = << >> /\ sv_last = << >> /\ sv_out = << >> /\ sv_step = 0
    /\ layout = "row" /\ reg = << >> /\ pc = "init"
    /\ view = "none" /\ sub_rows = rows /\ sub_cols = cols /\ row_offset = 0 /\ col_offset = 0
    /\ quantum = <<0, 0>> /\ image = << >>
    /\ build = "ok"
    /\ print_order \in PrintOrders
    /\ print_pc = [t \in 0 .. WARP_THREADS - 1 |-> <<"ready", 0>>]
    /\ out = << >>
    /\ AtomIdle /\ MmaIdle /\ BuildIdle

\* the next thread of the order calls print and evaluates the guard
PrintCall ==
    /\ print_of # "none"
    /\ \E t \in DOMAIN print_pc :
        /\ print_pc[t][1] = "ready"
        /\ t = print_order[Cardinality({u \in DOMAIN print_pc : print_pc[u][1] # "ready"}) + 1]
        /\ print_pc' = [print_pc EXCEPT ![t] = IF print_lane(laneid(t)) THEN <<"print", 0>>
                                               ELSE <<"done", 0>>]
    /\ UNCHANGED <<descVars, viewVars, xferVars, build, atomVars, mmaVars, svVars, buildVars,
                   print_of, print_order, out>>

\* a thread inside the guarded block makes its next printf, and returns after the last
Printf(t) ==
    /\ print_pc[t][1] = "print"
    /\ \E text \in { print_text } :
        LET k == print_pc[t][2]
        IN  /\ out' = Append(out, <<t, text[k + 1]>>)
            /\ print_pc' = [print_pc EXCEPT ![t] = IF k + 1 = Len(text) THEN <<"done", 0>>
                                                   ELSE <<"print", k + 1>>]
    /\ UNCHANGED <<descVars, viewVars, xferVars, build, atomVars, mmaVars, svVars, buildVars,
                   print_of, print_order>>

NextPrint == PrintCall \/ \E t \in DOMAIN print_pc : Printf(t)

SpecPrint == InitPrint /\ [][NextPrint]_vars

\* C21: print(sv) and print(tile) emit output from lane 0 alone: when the 32
\* lanes of a warp call print, no lane other than 0 makes a printf, and the
\* output is at every moment a prefix of the one dump of lane 0, complete
\* once every lane has returned.
C21_SingleLanePrints ==
    print_of # "none" =>
        \A text \in { print_text } :
            /\ \A t \in DOMAIN print_pc : laneid(t) # 0 => print_pc[t][1] # "print"
            /\ Len(out) <= Len(text)
            /\ \A n \in DOMAIN out : out[n] = <<0, text[n]>>
            /\ (\A t \in DOMAIN print_pc : print_pc[t][1] = "done") => Len(out) = Len(text)

\* C21 witness: a tile was printed in full while the other lanes went
\* through the call before, during and after the dump of lane 0
C21_Witness ==
    /\ print_of = "st" /\ rows = 32
    /\ print_order[1] # 0 /\ print_order[WARP_THREADS] # 0
    /\ \A t \in DOMAIN print_pc : print_pc[t][1] = "done"
    /\ Len(out) > max_display_rows * max_display_cols

-----------------------------------------------------------------------------
(* Whole views: tile[{r, c}] and sub[{r, c}] over every coordinate of the   *)
(* view, and sub = value by a warp                                          *)

\* the values assigned; none of them is held by the tile before
AssignValues == {-1, -2}

\* st_subtile::operator=: the indices i of data[i] = value over the lanes,
\* for(int i = laneid(); i < num_elements; i += WARP_THREADS)
st_subtile_assign_indices(num_elements) ==
    { i \in 0 .. num_elements - 1 : \E l \in LaneIds : i >= l /\ (i - l) % WARP_THREADS = 0 }

\* st_subtile::operator=: shared memory after sub = value, data being p
st_subtile_assign(mem, p, sz, num_elements, value) ==
    LET written == { p + sz * i : i \in st_subtile_assign_indices(num_elements) }
    IN  [a \in DOMAIN mem |-> IF a \in written THEN value ELSE mem[a]]

\* what the element at address a holds before any assignment
InitialElem(a) == Pattern(1, (a - ptr) \div T_size)

InitView ==
    /\ T_size \in ElemSizes
    /\ U_type = (IF T_size = 1 THEN "fp8e4m3" ELSE IF T_size = 2 THEN "bf16" ELSE "float")
    /\ T_type = U_type
    /\ KITTENS_HOPPER = (T_size = 1)
    /\ \E s \in TileShapes(T_size) : rows = s[1] /\ cols = s[2]
    /\ ptr \in BasePtrs
    /\ dst_ptr = ptr
    /\ view = "none"
    /\ sub_rows = rows /\ sub_cols = cols
    /\ row_offset = 0 /\ col_offset = 0
    /\ quantum = <<0, 0>>
    /\ image = << >>
    /\ smem = [a \in TileAddrs(ptr) |-> InitialElem(a)]
    /\ reg = << >> /\ pc = "init" /\ layout = "row"
    /\ build = "ok"
    /\ AtomIdle /\ MmaIdle /\ SvIdle /\ BuildIdle /\ PrintIdle

\* tile[{r, c}] for every coordinate of the root tile
StIdxAll ==
    /\ view = "none"
    /\ view' = "st"
    /\ image' = [rc \in (0 .. rows - 1) \X (0 .. cols - 1) |->
                    st_idx(T_size, rows, cols, ptr, rc[1], rc[2])]
    /\ UNCHANGED <<descVars, xferVars, build, atomVars, mmaVars, svVars, buildVars, printVars,
                   sub_rows, sub_cols, row_offset, col_offset, quantum>>

\* sub[{r, c}] for every coordinate of the subtile
StSubtileIdxAll ==
    /\ view = "st_subtile"
    /\ image = << >>
    /\ image' = [rc \in (0 .. sub_rows - 1) \X (0 .. sub_cols - 1) |->
                    st_subtile_idx(T_size, rows, cols, sub_rows,
                                   row_offset, col_offset, ptr, rc[1], rc[2])]
    /\ UNCHANGED <<descVars, xferVars, build, atomVars, mmaVars, svVars, buildVars, printVars,
                   view, sub_rows, sub_cols, row_offset, col_offset, quantum>>

\* sub = value, by the 32 lanes of a warp
StSubtileAssign ==
    /\ view = "st_subtile"
    /\ pc = "init"
    /\ \E value \in AssignValues :
        /\ smem' = st_subtile_assign(smem, ptr, T_size, sub_rows * sub_cols, value)
        /\ reg' = <<value>>
    /\ pc' = "stored"
    /\ UNCHANGED <<descVars, viewVars, build, atomVars, mmaVars, svVars, buildVars, printVars,
                   U_type, T_type, layout, KITTENS_HOPPER, dst_ptr>>

NextView == StIdxAll \/ StSubtile \/ StSubtileIdxAll \/ StSubtileAssign

SpecView == InitView /\ [][NextView]_vars

\* C22: for every valid shape, element size 1, 2 or 4 and 128-byte aligned
\* base, st::idx restricted to 0 <= r < rows, 0 <= c < cols is injective and
\* its image is exactly the set of element-aligned addresses of
\* [base, base + rows * cols * sizeof(T)).
C22_IdxBijective ==
    (view = "st" /\ image # << >>) =>
        /\ ImageInjective
        /\ ImageSet = TileAddrs(ptr)

\* C22 witness: every address of a 32x48 tile of 4-byte elements (period 64,
\* three subtile columns) at a base other than 0 was computed
C22_Witness ==
    /\ view = "st" /\ image # << >>
    /\ T_size = 4 /\ rows = 32 /\ cols = 48 /\ ptr > 0
    /\ Cardinality(DOMAIN image) = rows * cols

\* the addresses of the view of the same shape at grid position {i, j}
ViewAddrs(i, j) ==
    { st_subtile_idx(T_size, rows, cols, sub_rows, i * sub_rows, j * sub_cols, ptr, r, c) :
        r \in 0 .. sub_rows - 1, c \in 0 .. sub_cols - 1 }

\* C28: the constructor of a subtile sets row_offset = i * rows and
\* col_offset = j * cols, multiples of the base tile; for i below
\* underlying_rows / rows and j below underlying_cols / cols every address of
\* the view lies in the parent's buffer, and the views at other grid
\* positions address none of its locations.
C28_SubtileViews ==
    view = "st_subtile" =>
        /\ row_offset % sub_rows = 0 /\ col_offset % sub_cols = 0
        /\ row_offset % TILE_ROW_DIM(T_size) = 0 /\ col_offset % TILE_COL_DIM(T_size) = 0
        /\ image # << >> =>
            /\ ImageSet \subseteq TileAddrs(ptr)
            /\ ImageSet = ViewAddrs(row_offset \div sub_rows, col_offset \div sub_cols)
            /\ \A i \in 0 .. (rows \div sub_rows) - 1, j \in 0 .. (cols \div sub_cols) - 1 :
                  <<i * sub_rows, j * sub_cols>> # <<row_offset, col_offset>>
                      => ViewAddrs(i, j) \cap ImageSet = {}

\* C28 witness: a 16x32 view at grid position {1, 1} of a 32x64 tile of
\* 2-byte elements, with all its addresses computed
C28_Witness ==
    /\ view = "st_subtile" /\ image # << >>
    /\ T_size = 2 /\ rows = 32 /\ cols = 64
    /\ sub_rows = 16 /\ sub_cols = 32
    /\ row_offset = 16 /\ col_offset = 32

\* whether the parent's coordinate <<r, c>> lies in the window of the subtile
InWindow(r, c) ==
    /\ row_offset <= r /\ r < row_offset + sub_rows
    /\ col_offset <= c /\ c < col_offset + sub_cols

\* C27: sub = value by the 32 lanes modifies exactly the elements of the
\* window of the subtile: every element read through the subtile holds the
\* value afterwards, and every element of the parent outside the window is
\* unchanged.
C27_SubtileAssignFrame ==
    (view = "st_subtile" /\ pc = "stored") =>
        /\ \A lr \in 0 .. sub_rows - 1, lc \in 0 .. sub_cols - 1 :
              smem[st_subtile_idx(T_size, rows, cols, sub_rows,
                                  row_offset, col_offset, ptr, lr, lc)] = reg[1]
        /\ \A r \in 0 .. rows - 1, c \in 0 .. cols - 1 :
              ~InWindow(r, c) =>
                  LET a == st_idx(T_size, rows, cols, ptr, r, c)
                  IN  smem[a] = InitialElem(a)

\* what sub = value does: the first rows * cols elements of the parent's
\* storage hold the value, whatever the window, and the others are unchanged
AssignWritesPrefix ==
    (view = "st_subtile" /\ pc = "stored") =>
        \A a \in DOMAIN smem :
            smem[a] = IF a < ptr + T_size * sub_rows * sub_cols THEN reg[1] ELSE InitialElem(a)

-----------------------------------------------------------------------------
(* Properties of the collective store and atomic_add: the lanes' targets    *)

\* the addresses store(tile2, fragment) writes
StoreTargets == { store_addr(dst_ptr, s[1], s[2], s[3], s[4], s[5]) : s \in FragSlots }

\* the addresses atomic_add(tile2, fragment) adds to
AtomicTargets == { atomic_add_addr(dst_ptr, s[1], s[2], s[3], s[4], s[5]) : s \in FragSlots }

\* what shared memory held at address a before the store
BeforeStore(a) ==
    IF a < dst_ptr THEN Pattern(ptr \div KITTENS_DEFAULT_ALIGN, (a - ptr) \div T_size)
    ELSE Pattern(7, (a - dst_ptr) \div T_size)

\* C23: within one collective store, and one collective atomic_add, no two
\* lanes and no two registers of one lane target the same address of the
\* tile; so after a store every target holds the value of its own register
\* and every other element is untouched, in whatever order the lanes' writes
\* are committed, with no synchronization inside the routine.
C23_DisjointTargets ==
    pc = "stored" =>
        \A tgts \in { StoreTargets } :
            /\ Cardinality(tgts) = Cardinality(FragSlots)
            /\ tgts \subseteq DOMAIN smem
            /\ \A s \in FragSlots :
                  smem[store_addr(dst_ptr, s[1], s[2], s[3], s[4], s[5])]
                      = store_value(reg, s[1], s[2], s[3], s[4], s[5])
            /\ \A a \in DOMAIN smem : a \notin tgts => smem[a] = BeforeStore(a)
            /\ T_size # 1 => Cardinality(AtomicTargets) = Cardinality(FragSlots)

\* C23 witness: a column-major register tile of two base tiles was stored to
\* a tile of 2-byte elements by the per-lane path
C23_Witness ==
    /\ pc = "stored"
    /\ T_size = 2 /\ layout = "col" /\ ~KITTENS_HOPPER
    /\ RT_height * RT_width = 2
    /\ Cardinality(StoreTargets) = 2 * TILE_ROW_DIM(T_size) * TILE_COL_DIM(T_size)

-----------------------------------------------------------------------------
(* The two builds of the 16-bit branch of store, side by side *)

\* the grouped path with the four registers handed over in order in both layouts
store16_hopper_inorder(p, l, i, j, k, e) ==
    IF layout = "row"
    THEN stsm4(LAMBDA x : ldsm_lane_addr(p, i, j, x), l, k, e, T_size)
    ELSE stsm4t(LAMBDA x : ldsm_lane_addr(p, i, j, x), l, k, e, T_size)

\* #ifdef KITTENS_HOPPER: row = laneid % 16, col = (laneid / 16) * 8, then
\* stsm4(tmp[0], tmp[1], tmp[2], tmp[3]) or stsm4t(tmp[0], tmp[2], tmp[1], tmp[3])
store16_hopper(p, l, i, j, k, e) ==
    IF layout = "row"
    THEN stsm4(LAMBDA x : ldsm_lane_addr(p, i, j, x), l, k, e, T_size)
    ELSE stsm4t(LAMBDA x : ldsm_lane_addr(p, i, j, x), l, TransOrder(k), e, T_size)

\* #else: one sts per register (row layout) or per component (column layout)
store16_plain(p, l, i, j, k, e) ==
    IF layout = "row"
    THEN LET row == i * tile_size_row + (l \div 4)
             col == j * tile_size_col + 2 * (l % 4)
         IN  ST_idx(p, row + (IF k \in {1, 3} THEN 8 ELSE 0),
                       col + (IF k \in {2, 3} THEN 8 ELSE 0)) + e * T_size
    ELSE LET row == i * tile_size_row + 2 * (l % 4)
             col == j * tile_size_col + (l \div 4)
         IN  ST_idx(p, row + (IF k \in {2, 3} THEN 8 ELSE 0) + e,
                       col + (IF k \in {1, 3} THEN 8 ELSE 0))

\* C24: for 2-byte elements the two builds of store are equivalent: the
\* grouped matrix store of the Hopper build and the per-lane stores of the
\* other build write every register of the register tile to the same
\* address, hence the same value to every coordinate of the tile, for every
\* fragment content.
C24_StorePathsEquivalent ==
    (T_size = 2 /\ pc = "stored") =>
        \A s \in FragSlots :
            LET h == store16_hopper(dst_ptr, s[1], s[2], s[3], s[4], s[5])
                n == store16_plain(dst_ptr, s[1], s[2], s[3], s[4], s[5])
            IN  /\ h = n
                /\ store_addr(dst_ptr, s[1], s[2], s[3], s[4], s[5]) = (IF KITTENS_HOPPER THEN h ELSE n)
                /\ smem[h] = store_value(reg, s[1], s[2], s[3], s[4], s[5])
                /\ smem[n] = store_value(reg, s[1], s[2], s[3], s[4], s[5])

\* C24 witness: the Hopper build stored a column-major register tile to a
\* tile of 2-byte elements two base tiles wide
C24_Witness ==
    /\ T_size = 2 /\ pc = "stored"
    /\ KITTENS_HOPPER /\ layout = "col"
    /\ RT_width = 2
    /\ \E s \in FragSlots :
          /\ s[4] = 1
          /\ store16_hopper(dst_ptr, s[1], s[2], s[3], s[4], s[5])
                # store16_hopper_inorder(dst_ptr, s[1], s[2], s[3], s[4], s[5])

-----------------------------------------------------------------------------
(* Shared-memory banks touched by one access of the warp *)

\* the 4-byte banks (address / 4 mod 32) that the 32 lanes touch in the
\* access of tmp[k], component e, of base tile (i, j) of the tile at p
WordBanks(p, i, j, k, e) ==
    { (fl_row_addr(p, l, i, j, k, e) \div 4) % 32 : l \in LaneIds }

\* C25: in the 4-byte row-major load and store, for each of the eight word
\* accesses of a lane taken separately, the final addresses of the 32 lanes
\* fall into 32 distinct 4-byte banks, for swizzle periods 64 and 128 and a
\* 128-byte aligned base.
C25_WordBanksDistinct ==
    (T_size = 4 /\ layout = "row" /\ pc # "init") =>
        /\ SwizzleOf(T_size, cols) \in {64, 128}
        /\ \A p \in {ptr, dst_ptr}, i \in 0 .. RT_height - 1, j \in 0 .. RT_width - 1,
              k \in 0 .. 3, e \in 0 .. 1 :
                Cardinality(WordBanks(p, i, j, k, e)) = WARP_THREADS

\* C25 witness: a tile of floats with period 64 was loaded and stored by the
\* row-major path from a base other than 0
C25_Witness ==
    /\ T_size = 4 /\ layout = "row" /\ pc = "stored"
    /\ SwizzleOf(T_size, cols) = 64
    /\ ptr > 0
    /\ Cardinality(WordBanks(dst_ptr, 0, 0, 3, 1)) = WARP_THREADS

\* the 16-byte bank groups (address / 16 mod 8) of the row addresses that
\* lanes 8g .. 8g+7 supply to the grouped matrix load of base tile (i, j)
RowBankGroups(p, i, j, g) ==
    { (ldsm_lane_addr(p, i, j, l) \div 16) % 8 : l \in (8 * g) .. (8 * g + 7) }

\* C26: in the grouped matrix load of 2-byte elements (row = lane % 16,
\* col = 8 * (lane / 16)), the 8 row addresses supplied by each group of 8
\* consecutive lanes fall into 8 distinct 16-byte bank groups, for swizzle
\* periods 32, 64 and 128 and a 128-byte aligned base.
C26_RowBankGroupsDistinct ==
    (T_size = 2 /\ pc # "init") =>
        /\ SwizzleOf(T_size, cols) \in {32, 64, 128}
        /\ \A i \in 0 .. RT_height - 1, j \in 0 .. RT_width - 1, g \in 0 .. 3 :
              /\ Cardinality(RowBankGroups(ptr, i, j, g)) = 8
              /\ \A l \in (8 * g) .. (8 * g + 7) : ldsm_lane_addr(ptr, i, j, l) % 16 = 0

\* C26 witness: a tile of 2-byte elements three base tiles wide (period 32)
\* was loaded from a base other than 0
C26_Witness ==
    /\ T_size = 2 /\ pc = "loaded"
    /\ SwizzleOf(T_size, cols) = 32 /\ RT_width = 3
    /\ ptr > 0
    /\ Cardinality(RowBankGroups(ptr, 0, 2, 3)) = 8

-----------------------------------------------------------------------------
(* The hand-computed addresses of the 32-bit row-major branches against idx *)

\* the addresses the 32-bit row-major branch computes for the registers of
\* the register tile that covers the view
HandAddrs == { fl_row_addr(ptr, s[1], s[2], s[3], s[4], s[5]) : s \in FragSlots }

\* C29: in the 4-byte row-major branches of load, store and atomic_add the
\* hand-computed addresses (addr_1 / addr_2 plus 0, 4, 32, 36, XOR-ed with
\* the swizzle and the parity bit) are, the parity exchange accounted for,
\* the addresses idx gives for (row, col), (row, col+1), (row, col+8),
\* (row, col+9) and the same at row+8, for tiles and for subtiles, which add
\* their offsets and use the parent's underlying_rows.
C29_HandAddresses ==
    (T_size = 4 /\ layout = "row" /\ view # "none") =>
        /\ \A s \in FragSlots :
            LET l == s[1]
                row == s[2] * tile_size_row + (l \div 4)
                col == s[3] * tile_size_col + 2 * (l % 4)
                par == IF blit(l) # 0 THEN 1 - s[5] ELSE s[5]
                a == ST_idx(ptr, row + (IF s[4] \in {1, 3} THEN 8 ELSE 0),
                                 col + (IF s[4] \in {2, 3} THEN 8 ELSE 0) + par)
            IN  /\ fl_row_addr(ptr, l, s[2], s[3], s[4], s[5]) = a
                /\ store_addr(ptr, l, s[2], s[3], s[4], s[5]) = a
                /\ atomic_add_addr(ptr, l, s[2], s[3], s[4], s[5]) = a
        /\ image # << >> => HandAddrs = ImageSet

\* C29 witness: a 16x16 subtile at grid position {1, 1} of a 32x48 tile of
\* floats (period 64, the subtile in the second subtile column), with the
\* addresses of all its elements computed by idx
C29_Witness ==
    /\ T_size = 4 /\ layout = "row" /\ view = "st_subtile"
    /\ rows = 32 /\ cols = 48 /\ sub_rows = 16 /\ sub_cols = 16
    /\ row_offset = 16 /\ col_offset = 16
    /\ image # << >>
    /\ HandAddrs = ImageSet

-----------------------------------------------------------------------------
(* Element sizes for which st has no swizzle period *)

\* C30: a tile whose element size is not 1, 2 or 4 bytes is rejected when it
\* is built: no tile with an undefined (non-positive) swizzle period is
\* built, and none is used to compute an address.
C30_WidthRejected ==
    kind \in {"st", "st_subtile"} =>
        /\ (build # "none" /\ T_size \notin ElemSizes) => build = "rejected"
        /\ build = "ok" => SwizzleOf(T_size, cols) > 0
        /\ image # << >> => SwizzleOf(T_size, cols) > 0

\* a tile of a supported element size that was built has a positive period,
\* and the addresses computed for it lie in its buffer
PeriodDefinedWhereSupported ==
    (kind \in {"st", "st_subtile"} /\ T_size \in ElemSizes /\ build = "ok") =>
        /\ SwizzleOf(T_size, cols) \in {32, 64, 128}
        /\ image # << >> => ImageSet \subseteq TileAddrs(ptr)

\* the state in which a tile of 8-byte elements was built and its idx gave an
\* address outside its buffer
NoPeriodTileRan ==
    /\ kind = "st" /\ T_size = 8 /\ build = "ok"
    /\ image # << >>
    /\ \E rc \in DOMAIN image : image[rc] \notin TileAddrs(ptr)

=============================================================================
